---- MODULE Spec2Model ----
(***************************************************************************)
(* A model of the council simulation engine (council-core): the            *)
(* expertise-weighted vote resolution (voting.rs), the galaxy state with   *)
(* its mutators (galaxy.rs), the score ledger (scoring.rs), the event      *)
(* templates and their selector (templates.rs), the round loop of the      *)
(* command-line driver (council-cli/src/main.rs), and the council members  *)
(* (the bots crates) with their calls to a text-generation service         *)
(* (ollama.rs).                                                            *)
(*                                                                         *)
(* f32 weights are modelled in fixed point: proficiencies in tenths, event *)
(* weights in hundredths, vote weights and totals in thousandths           *)
(* (0.1 = 100).  The weight domain is the finite, ordered part of f32, on  *)
(* which partial_cmp always answers; sums and products of the small values *)
(* used here are exact.  u32 / i32 values stay far below 2^31.             *)
(*                                                                         *)
(* The random number generator is the stream of u32 values that            *)
(* RngCore::next_u32 will return, as a sequence; a call that draws takes   *)
(* the head of the sequence.  Texts (descriptions) are shortened to their  *)
(* first words; the values formatted into an event's description follow    *)
(* the text in a tuple.                                                    *)
(***************************************************************************)
EXTENDS Integers, Sequences, FiniteSets, TLC

VARIABLES
    \* ---- voting.rs: resolve_votes
    votes,              \* the &[Vote] argument
    num_options,        \* the num_options argument
    winner,             \* the returned index
    vote_pc,            \* "call" before resolve_votes ran, "done" after
    \* ---- voting.rs: calculate_vote_weight
    bot_expertise,      \* bot.expertise(): sequence of [tag, proficiency]
    relevant_expertise, \* event.relevant_expertise: sequence of [tag, weight]
    vote_weight,        \* the returned weight
    weight_pc,          \* "call" before calculate_vote_weight ran, "done" after
    \* ---- galaxy.rs: GalaxyState and its callers' view of the last call
    galaxy,             \* the GalaxyState
    prev_galaxy,        \* the GalaxyState when the last call started
    changes,            \* the &[StateChange] argument of the last apply_changes
    penalty,            \* the value returned by the last process_threats
    op,                 \* the last call: "new", "apply_changes", "process_threats"
    steps,              \* state changes applied and threat rounds processed so far
    counts,             \* <<allied_count(), hostile_count()>> of the last query
    \* ---- templates.rs: the relation step functions
    rel_current,        \* the Relation the steps have led to
    rel_prev,           \* the argument of the last step
    rel_step,           \* the last step: "none", "improve", "degrade", "greatly_improve"
    rel_trace,          \* the steps taken so far
    \* ---- scoring.rs: ScoreTracker
    score,              \* the ScoreTracker
    prev_score,         \* the ScoreTracker when the last add started
    score_args,         \* the arguments of the last add, as a list of at most one
    score_query,        \* the last query on the tracker, "none" after an add
    score_result,       \* what the query returned, as a list of at most one
    \* ---- templates.rs: generate_event
    templates,          \* the catalog argument: a sequence of template names
    rng,                \* the generator: the u32 values it will return next
    rng_start,          \* the generator when the last generate_event started
    event,              \* the returned Event
    event_pc,           \* "call" before generate_event ran, "done" after
    \* ---- event.rs: EventTemplate::is_applicable
    asked,              \* the template that was asked, by name(); "none" before
    answer,             \* what is_applicable returned, as a list of at most one
    \* ---- main.rs: the round loop
    pc,                 \* the next step of the loop body
    cfg_rounds,         \* cfg.rounds
    loop_round,         \* the loop variable round; 0 before the first round
    bots,               \* the council: a sequence of members
    log,                \* the steps performed so far: round, step and argument
    \* ---- main.rs: the deliberation phase and the members' votes of one round
    ollama,             \* per member: its ollama field is Some(cfg)
    cfg_deliberate,     \* cfg.deliberate
    lines,              \* the names of the members whose comment() was Some
    event_for_vote,     \* the event handed to vote()
    calls,              \* per vote cast: what the remote call did, the vote returned
    council_pc          \* "deliberate", "vote"; "idle" when no round is modelled

voteVars == <<votes, num_options, winner, vote_pc>>
weightVars == <<bot_expertise, relevant_expertise, vote_weight, weight_pc>>
galaxyVars == <<galaxy, prev_galaxy, changes, penalty, op, steps, counts>>
relVars == <<rel_current, rel_prev, rel_step, rel_trace>>
scoreVars == <<score, prev_score, score_args, score_query, score_result>>
applicableVars == <<asked, answer>>
eventVars == <<templates, rng, rng_start, event, event_pc, applicableVars>>
councilVars == <<ollama, cfg_deliberate, lines, event_for_vote, calls, council_pc>>
driverVars == <<pc, cfg_rounds, loop_round, bots, log, councilVars>>
vars == <<voteVars, weightVars, galaxyVars, relVars, scoreVars, eventVars, driverVars>>

(***************************************************************************)
(* Bounds of the model and the input universes.                            *)
(***************************************************************************)
MaxVotes == 3
MaxOptions == 3
MaxTags == 2
MaxSteps == 3
MaxRelSteps == 3
MaxHistory == 3
MaxDraws == 6
MaxRounds == 2
MaxBots == 2
MaxTotal == 260

\* Vote weights, in thousandths (0.3 + 0.5 ties with 0.8; Vote.weight is any
\* f32, so a zero and a negative weight are among them).
VoteWeights == {-300, 0, 300, 500, 800}
BotNames == {"a"}
Tags == {"diplomacy", "science", "engineering"}
\* Proficiencies, in tenths, and event weights, in hundredths (both are f32
\* in the source: the documented range is 0.0 to 1.0, and one proficiency
\* below it is kept).
Proficiencies == {-5, 0, 6, 8}
EventWeights == {30, 50}

\* Sequences over S of length at most n.
SeqsUpTo(S, n) == UNION {[1..k -> S] : k \in 0..n}

\* Sum of the numbers of a sequence.
RECURSIVE SumSeq(_)
SumSeq(s) == IF s = <<>> THEN 0 ELSE s[Len(s)] + SumSeq(SubSeq(s, 1, Len(s) - 1))

(***************************************************************************)
(* voting.rs                                                               *)
(***************************************************************************)
\* pub struct Vote
Vote == [bot_name : BotNames, chosen_option : 0..MaxOptions, weight : VoteWeights]

\* pub const BASE_WEIGHT: f32 = 0.1, in thousandths.
BASE_WEIGHT == 100

\* expertise.iter().find(|(bot_tag, _)| bot_tag == tag): the first entry of
\* the bot's list with that tag, as a set of at most one index.
FindTag(expertise, tag) ==
    {i \in 1..Len(expertise) :
        /\ expertise[i].tag = tag
        /\ \A j \in 1..(i - 1) : expertise[j].tag # tag}

\* The filter_map closure: Some(event_weight * proficiency) or None, as a
\* sequence of at most one product.
ExpertiseProduct(expertise, entry) ==
    LET found == FindTag(expertise, entry.tag)
    IN  IF found = {} THEN <<>>
        ELSE <<entry.weight * expertise[CHOOSE i \in found : TRUE].proficiency>>

\* .sum() over the filter_map of event.relevant_expertise, in list order.
RECURSIVE ExpertiseBonus(_, _)
ExpertiseBonus(expertise, relevant) ==
    IF relevant = <<>> THEN 0
    ELSE LET p == ExpertiseProduct(expertise, Head(relevant))
         IN  (IF p = <<>> THEN 0 ELSE p[1]) + ExpertiseBonus(expertise, Tail(relevant))

\* Mutant: an event tag the bot lacks counts with proficiency 1.0.
calculate_vote_weight_unmatched_full(expertise, relevant) ==
    BASE_WEIGHT
    + SumSeq([i \in 1..Len(relevant) |->
                IF FindTag(expertise, relevant[i].tag) = {}
                THEN relevant[i].weight * 10
                ELSE ExpertiseProduct(expertise, relevant[i])[1]])

\* Mutant: the base weight is left out of the result.
calculate_vote_weight_no_base(expertise, relevant) ==
    ExpertiseBonus(expertise, relevant)

\* pub fn calculate_vote_weight(bot, event) -> f32
calculate_vote_weight(expertise, relevant) ==
    BASE_WEIGHT + ExpertiseBonus(expertise, relevant)

\* The tally loop: totals[vote.chosen_option] += vote.weight for the votes in
\* range, in list order.  totals is indexed 0..num_options-1 as in the source.
RECURSIVE Tally(_, _, _)
Tally(totals, vs, n) ==
    IF vs = <<>> THEN totals
    ELSE LET vote == Head(vs)
         IN  Tally(IF vote.chosen_option < n
                   THEN [totals EXCEPT ![vote.chosen_option] = @ + vote.weight]
                   ELSE totals,
                   Tail(vs), n)

\* Mutant: an out-of-range vote is clamped to the last option, not dropped.
RECURSIVE TallyClamped(_, _, _)
TallyClamped(totals, vs, n) ==
    IF vs = <<>> THEN totals
    ELSE LET vote == Head(vs)
             idx == IF vote.chosen_option < n THEN vote.chosen_option ELSE n - 1
         IN  TallyClamped([totals EXCEPT ![idx] = @ + vote.weight], Tail(vs), n)

\* f32::partial_cmp on the ordered part of f32, and usize::cmp.
Cmp(x, y) == IF x < y THEN "Less" ELSE IF x > y THEN "Greater" ELSE "Equal"

\* Ordering::then
Then(first, second) == IF first = "Equal" THEN second ELSE first

\* Mutant: the tie-break compares the indices the other way round.
CompareTotalsHigherIndex(a, b) ==
    Then(Cmp(a.total, b.total), Cmp(a.idx, b.idx))

\* The max_by closure: a.1.partial_cmp(b.1).unwrap_or(Equal).then(b.0.cmp(&a.0))
CompareTotals(a, b) ==
    Then(Cmp(a.total, b.total), Cmp(b.idx, a.idx))

\* Iterator::max_by over totals.iter().enumerate(): a left fold that keeps the
\* running maximum x only when compare(x, y) is Greater, else takes y.
RECURSIVE MaxByFrom(_, _, _, _)
MaxByFrom(totals, best, i, n) ==
    IF i >= n THEN best
    ELSE LET x == [idx |-> best, total |-> totals[best]]
             y == [idx |-> i, total |-> totals[i]]
         IN  MaxByFrom(totals,
                       IF CompareTotals(x, y) = "Greater" THEN best ELSE i,
                       i + 1, n)

\* .max_by(..).map(|(idx, _)| idx).unwrap_or(0)
MaxByIndex(totals, n) == IF n = 0 THEN 0 ELSE MaxByFrom(totals, 0, 1, n)

\* Mutant: out-of-range votes are clamped into the last option.
resolve_votes_clamping(vs, n) ==
    IF n = 0 THEN 0
    ELSE MaxByIndex(TallyClamped([i \in 0..(n - 1) |-> 0], vs, n), n)

\* Mutant: no degenerate guard, and the search starts from totals[0], which
\* is an index out of bounds when there are no options (-1 stands for the
\* panic).
resolve_votes_unguarded(vs, n) ==
    IF n = 0 THEN -1
    ELSE MaxByIndex(Tally([i \in 0..(n - 1) |-> 0], vs, n), n)

\* pub fn resolve_votes(votes, num_options) -> usize
resolve_votes(vs, n) ==
    IF n = 0 THEN 0
    ELSE MaxByIndex(Tally([i \in 0..(n - 1) |-> 0], vs, n), n)

(***************************************************************************)
(* galaxy.rs                                                               *)
(***************************************************************************)
\* pub enum Relation
Relation == {"Unknown", "Hostile", "Wary", "Neutral", "Friendly", "Allied"}

\* HashMap<String, Relation> as a function from its key set.
EmptyMap == [k \in {} |-> "Unknown"]

\* HashMap::insert: adds the key or overwrites its value.
Insert(map, key, value) ==
    [k \in DOMAIN map \cup {key} |-> IF k = key THEN value ELSE map[k]]

\* GalaxyState::new()
GalaxyNew ==
    [round |-> 0,
     explored_sectors |-> <<[name |-> "Home Sector", sector_type |-> "Habitable"]>>,
     known_species |-> <<>>,
     relations |-> EmptyMap,
     discoveries |-> <<>>,
     threats |-> <<>>]

\* iter().any(|x| x.name == name) over a list of named records
AnyNamed(list, name) == \E i \in 1..Len(list) : list[i].name = name

\* Mutant: the sector is pushed without looking for its name.
AddSectorUnchecked(g, sector) ==
    [g EXCEPT !.explored_sectors = Append(@, sector)]

\* StateChange::AddSector(sector)
AddSector(g, sector) ==
    IF ~AnyNamed(g.explored_sectors, sector.name)
    THEN [g EXCEPT !.explored_sectors = Append(@, sector)]
    ELSE g

\* Mutant: the relation is reset to Unknown outside the duplicate check.
AddSpeciesResetsRelation(g, species) ==
    IF ~AnyNamed(g.known_species, species.name)
    THEN [g EXCEPT !.known_species = Append(@, species),
                   !.relations = Insert(@, species.name, "Unknown")]
    ELSE [g EXCEPT !.relations = Insert(@, species.name, "Unknown")]

\* Mutant: the relation is set with entry().or_insert(), which keeps an entry
\* that a SetRelation made before the species was known.
AddSpeciesOrInsert(g, species) ==
    IF ~AnyNamed(g.known_species, species.name)
    THEN [g EXCEPT !.known_species = Append(@, species),
                   !.relations = IF species.name \in DOMAIN @ THEN @
                                 ELSE Insert(@, species.name, "Unknown")]
    ELSE g

\* Mutant: the species is pushed without a relation.
AddSpeciesWithoutRelation(g, species) ==
    IF ~AnyNamed(g.known_species, species.name)
    THEN [g EXCEPT !.known_species = Append(@, species)]
    ELSE g

\* StateChange::AddSpecies(species)
AddSpecies(g, species) ==
    IF ~AnyNamed(g.known_species, species.name)
    THEN [g EXCEPT !.known_species = Append(@, species),
                   !.relations = Insert(@, species.name, "Unknown")]
    ELSE g

\* StateChange::SetRelation { species, relation }
SetRelation(g, species, relation) ==
    [g EXCEPT !.relations = Insert(@, species, relation)]

\* StateChange::AddDiscovery(discovery)
AddDiscovery(g, discovery) ==
    [g EXCEPT !.discoveries = Append(@, discovery)]

\* Mutant: a threat of a name already active restarts the active one's count
\* of rounds.
AddThreatRestarts(g, threat) ==
    IF ~AnyNamed(g.threats, threat.name)
    THEN [g EXCEPT !.threats = Append(@, threat)]
    ELSE [g EXCEPT !.threats = [i \in 1..Len(@) |->
                                   IF @[i].name = threat.name
                                   THEN [@[i] EXCEPT !.rounds_active = 0]
                                   ELSE @[i]]]

\* Mutant: the threat is pushed without looking for its name.
AddThreatUnchecked(g, threat) ==
    [g EXCEPT !.threats = Append(@, threat)]

\* Mutant: a threat of a name already active replaces the active one.
AddThreatReplaces(g, threat) ==
    IF ~AnyNamed(g.threats, threat.name)
    THEN [g EXCEPT !.threats = Append(@, threat)]
    ELSE [g EXCEPT !.threats = [i \in 1..Len(@) |->
                                   IF @[i].name = threat.name THEN threat ELSE @[i]]]

\* StateChange::AddThreat(threat)
AddThreat(g, threat) ==
    IF ~AnyNamed(g.threats, threat.name)
    THEN [g EXCEPT !.threats = Append(@, threat)]
    ELSE g

\* threats.retain(|t| &t.name != name)
RetainOthers(threats, name) == SelectSeq(threats, LAMBDA t : t.name # name)

\* StateChange::RemoveThreat(name)
RemoveThreat(g, name) ==
    [g EXCEPT !.threats = RetainOthers(@, name)]

\* i32::max
Max(a, b) == IF a >= b THEN a ELSE b

\* threats.iter_mut().find(|t| &t.name == name): the first threat of that
\* name, as a set of at most one index.
FindThreat(threats, name) ==
    {i \in 1..Len(threats) :
        /\ threats[i].name = name
        /\ \A j \in 1..(i - 1) : threats[j].name # name}

\* Mutant: the severity is clamped at 0 but the threat is not removed.
ModifyThreatSeverityKeepsZero(g, name, delta) ==
    LET found == FindThreat(g.threats, name)
    IN  IF found = {} THEN g
        ELSE LET i == CHOOSE j \in found : TRUE
             IN  [g EXCEPT !.threats[i].severity = Max(@ + delta, 0)]

\* StateChange::ModifyThreatSeverity { name, delta }
ModifyThreatSeverity(g, name, delta) ==
    LET found == FindThreat(g.threats, name)
    IN  IF found = {} THEN g
        ELSE LET i == CHOOSE j \in found : TRUE
                 severity == Max(g.threats[i].severity + delta, 0)
             IN  IF severity = 0
                 THEN [g EXCEPT !.threats = RetainOthers(@, name)]
                 ELSE [g EXCEPT !.threats[i].severity = severity]

\* One arm of the match in apply_changes.
ApplyChange(g, change) ==
    CASE change.type = "AddSector" -> AddSector(g, change.sector)
      [] change.type = "AddSpecies" -> AddSpecies(g, change.species)
      [] change.type = "SetRelation" -> SetRelation(g, change.species, change.relation)
      [] change.type = "AddDiscovery" -> AddDiscovery(g, change.discovery)
      [] change.type = "AddThreat" -> AddThreat(g, change.threat)
      [] change.type = "RemoveThreat" -> RemoveThreat(g, change.name)
      [] change.type = "ModifyThreatSeverity" ->
            ModifyThreatSeverity(g, change.name, change.delta)

\* Mutant: the changes are applied from the last to the first.
RECURSIVE apply_changes_reversed(_, _)
apply_changes_reversed(g, cs) ==
    IF cs = <<>> THEN g
    ELSE apply_changes_reversed(ApplyChange(g, cs[Len(cs)]), SubSeq(cs, 1, Len(cs) - 1))

\* GalaxyState::apply_changes: the changes one after another, in list order.
RECURSIVE apply_changes(_, _)
apply_changes(g, cs) ==
    IF cs = <<>> THEN g ELSE apply_changes(ApplyChange(g, Head(cs)), Tail(cs))

\* GalaxyState::process_threats: the state it leaves, and the penalty it
\* returns.
process_threats_state(g) ==
    [g EXCEPT !.threats = [i \in 1..Len(@) |->
                              [@[i] EXCEPT !.rounds_active = @ + 1]]]

\* GalaxyState::allied_count: the values of relations that are Allied.
allied_count(g) ==
    Cardinality({name \in DOMAIN g.relations : g.relations[name] = "Allied"})

\* GalaxyState::hostile_count: the values of relations that are Hostile.
hostile_count(g) ==
    Cardinality({name \in DOMAIN g.relations : g.relations[name] = "Hostile"})

\* Mutant: the penalty is returned without its sign.
process_threats_penalty_unsigned(threats) ==
    3 * SumSeq([i \in 1..Len(threats) |-> threats[i].severity])

\* Mutant: every threat costs 3, whatever its severity.
process_threats_penalty_flat(threats) == 0 - 3 * Len(threats)

RECURSIVE process_threats_penalty(_)
process_threats_penalty(threats) ==
    IF threats = <<>> THEN 0
    ELSE process_threats_penalty(SubSeq(threats, 1, Len(threats) - 1))
         - threats[Len(threats)].severity * 3

(***************************************************************************)
(* event.rs                                                                *)
(***************************************************************************)
\* The Event variable of a caller before an event was generated.
NoEvent == [description |-> <<>>, relevant_expertise |-> <<>>, options |-> <<>>]

(***************************************************************************)
(* scoring.rs                                                              *)
(***************************************************************************)
\* ScoreTracker::new()
ScoreNew == [total |-> 0, history |-> <<>>]

\* Mutant: the new entry is put in front of the history.
add_in_front(tracker, round, delta, reason) ==
    [total |-> tracker.total + delta,
     history |-> <<[round |-> round, delta |-> delta, reason |-> reason]>>
                 \o tracker.history]

\* ScoreTracker::add
add(tracker, round, delta, reason) ==
    [total |-> tracker.total + delta,
     history |-> Append(tracker.history,
                        [round |-> round, delta |-> delta, reason |-> reason])]

\* Mutant: a total of exactly 200 is not yet legendary.
rating_above_200(tracker) ==
    CASE tracker.total > 200 -> "Legendary Council"
      [] tracker.total >= 150 /\ tracker.total <= 200 -> "Distinguished"
      [] tracker.total >= 100 /\ tracker.total <= 149 -> "Competent"
      [] tracker.total >= 50 /\ tracker.total <= 99 -> "Struggling"
      [] OTHER -> "Dysfunctional"

\* ScoreTracker::rating: the match on self.total, arm by arm.
rating(tracker) ==
    CASE tracker.total >= 200 -> "Legendary Council"
      [] tracker.total >= 150 /\ tracker.total <= 199 -> "Distinguished"
      [] tracker.total >= 100 /\ tracker.total <= 149 -> "Competent"
      [] tracker.total >= 50 /\ tracker.total <= 99 -> "Struggling"
      [] OTHER -> "Dysfunctional"

\* Iterator::max_by_key(|e| e.delta): a left fold that keeps the running
\* maximum x only when x's key compares Greater than y's, else takes y.  The
\* entries are given by their index in the history.
RECURSIVE MaxByKeyFrom(_, _, _)
MaxByKeyFrom(history, best, i) ==
    IF i > Len(history) THEN best
    ELSE MaxByKeyFrom(history,
                      IF history[best].delta > history[i].delta THEN best ELSE i,
                      i + 1)

\* Iterator::min_by_key(|e| e.delta): a left fold that takes y only when the
\* running minimum x's key compares Greater than y's, else keeps x.
RECURSIVE MinByKeyFrom(_, _, _)
MinByKeyFrom(history, best, i) ==
    IF i > Len(history) THEN best
    ELSE MinByKeyFrom(history,
                      IF history[best].delta > history[i].delta THEN i ELSE best,
                      i + 1)

\* ScoreTracker::best_moment: None as <<>>, Some(&history[i]) as <<i>>.
best_moment(tracker) ==
    IF tracker.history = <<>> THEN <<>>
    ELSE <<MaxByKeyFrom(tracker.history, 1, 2)>>

\* Mutant: of several entries with the minimum delta the last is returned.
worst_moment_last(tracker) ==
    IF tracker.history = <<>> THEN <<>>
    ELSE <<CHOOSE i \in 1..Len(tracker.history) :
              /\ \A j \in 1..Len(tracker.history) :
                    tracker.history[i].delta <= tracker.history[j].delta
              /\ \A j \in (i + 1)..Len(tracker.history) :
                    tracker.history[i].delta < tracker.history[j].delta>>

\* ScoreTracker::worst_moment: None as <<>>, Some(&history[i]) as <<i>>.
worst_moment(tracker) ==
    IF tracker.history = <<>> THEN <<>>
    ELSE <<MinByKeyFrom(tracker.history, 1, 2)>>

(***************************************************************************)
(* templates.rs: the relation steps                                        *)
(***************************************************************************)
\* Mutant: an Unknown relation is left as it is.
improve_relation_keeps_unknown(current) ==
    CASE current = "Hostile" -> "Wary"
      [] current = "Unknown" -> "Unknown"
      [] current = "Wary" -> "Neutral"
      [] current = "Neutral" -> "Friendly"
      [] current \in {"Friendly", "Allied"} -> "Allied"

\* fn improve_relation
improve_relation(current) ==
    CASE current = "Hostile" -> "Wary"
      [] current \in {"Unknown", "Wary"} -> "Neutral"
      [] current = "Neutral" -> "Friendly"
      [] current \in {"Friendly", "Allied"} -> "Allied"

\* Mutant: a hostile relation degrades to Unknown.
degrade_relation_below_hostile(current) ==
    CASE current = "Allied" -> "Friendly"
      [] current = "Friendly" -> "Neutral"
      [] current = "Neutral" -> "Wary"
      [] current \in {"Wary", "Unknown"} -> "Hostile"
      [] current = "Hostile" -> "Unknown"

\* fn degrade_relation
degrade_relation(current) ==
    CASE current = "Allied" -> "Friendly"
      [] current = "Friendly" -> "Neutral"
      [] current = "Neutral" -> "Wary"
      [] current \in {"Wary", "Unknown"} -> "Hostile"
      [] current = "Hostile" -> "Hostile"

\* fn greatly_improve_relation
greatly_improve_relation(current) == improve_relation(improve_relation(current))

(***************************************************************************)
(* templates.rs: mod names and the formatted names                         *)
(***************************************************************************)
\* format!("{} {}", prefix, suffix) for every prefix of SECTOR_PREFIXES (one
\* row each) and every suffix of SECTOR_SUFFIXES.
SECTOR_NAMES ==
    <<<<"Alpha Quadrant", "Alpha Nebula", "Alpha Cluster", "Alpha Expanse",
        "Alpha Reach", "Alpha Void", "Alpha Drift", "Alpha Sector">>,
      <<"Beta Quadrant", "Beta Nebula", "Beta Cluster", "Beta Expanse",
        "Beta Reach", "Beta Void", "Beta Drift", "Beta Sector">>,
      <<"Gamma Quadrant", "Gamma Nebula", "Gamma Cluster", "Gamma Expanse",
        "Gamma Reach", "Gamma Void", "Gamma Drift", "Gamma Sector">>,
      <<"Delta Quadrant", "Delta Nebula", "Delta Cluster", "Delta Expanse",
        "Delta Reach", "Delta Void", "Delta Drift", "Delta Sector">>,
      <<"Epsilon Quadrant", "Epsilon Nebula", "Epsilon Cluster",
        "Epsilon Expanse", "Epsilon Reach", "Epsilon Void", "Epsilon Drift",
        "Epsilon Sector">>,
      <<"Zeta Quadrant", "Zeta Nebula", "Zeta Cluster", "Zeta Expanse",
        "Zeta Reach", "Zeta Void", "Zeta Drift", "Zeta Sector">>,
      <<"Theta Quadrant", "Theta Nebula", "Theta Cluster", "Theta Expanse",
        "Theta Reach", "Theta Void", "Theta Drift", "Theta Sector">>,
      <<"Omega Quadrant", "Omega Nebula", "Omega Cluster", "Omega Expanse",
        "Omega Reach", "Omega Void", "Omega Drift", "Omega Sector">>,
      <<"Nova Quadrant", "Nova Nebula", "Nova Cluster", "Nova Expanse",
        "Nova Reach", "Nova Void", "Nova Drift", "Nova Sector">>,
      <<"Sigma Quadrant", "Sigma Nebula", "Sigma Cluster", "Sigma Expanse",
        "Sigma Reach", "Sigma Void", "Sigma Drift", "Sigma Sector">>>>

\* format!("{}{}", prefix, suffix) for every prefix of SPECIES_PREFIXES (one
\* row each) and every suffix of SPECIES_SUFFIXES.
SPECIES_NAMES ==
    <<<<"Zorians", "Zoroids", "Zorax", "Zoruri", "Zoreni", "Zoroni",
        "Zorari", "Zoreki", "Zoroth", "Zorix">>,
      <<"Krelians", "Kreloids", "Krelax", "Kreluri", "Kreleni", "Kreloni",
        "Krelari", "Kreleki", "Kreloth", "Krelix">>,
      <<"Xanians", "Xanoids", "Xanax", "Xanuri", "Xaneni", "Xanoni",
        "Xanari", "Xaneki", "Xanoth", "Xanix">>,
      <<"Velians", "Veloids", "Velax", "Veluri", "Veleni", "Veloni",
        "Velari", "Veleki", "Veloth", "Velix">>,
      <<"Murians", "Muroids", "Murax", "Mururi", "Mureni", "Muroni",
        "Murari", "Mureki", "Muroth", "Murix">>,
      <<"Thalians", "Thaloids", "Thalax", "Thaluri", "Thaleni", "Thaloni",
        "Thalari", "Thaleki", "Thaloth", "Thalix">>,
      <<"Qorians", "Qoroids", "Qorax", "Qoruri", "Qoreni", "Qoroni",
        "Qorari", "Qoreki", "Qoroth", "Qorix">>,
      <<"Nexians", "Nexoids", "Nexax", "Nexuri", "Nexeni", "Nexoni",
        "Nexari", "Nexeki", "Nexoth", "Nexix">>,
      <<"Paxians", "Paxoids", "Paxax", "Paxuri", "Paxeni", "Paxoni",
        "Paxari", "Paxeki", "Paxoth", "Paxix">>,
      <<"Draians", "Draoids", "Draax", "Drauri", "Draeni", "Draoni",
        "Draari", "Draeki", "Draoth", "Draix">>>>

\* format!("{} Cultural Lexicon", species_name) for the names of SPECIES_NAMES,
\* at the same places.
LEXICON_NAMES ==
    <<<<"Zorians Cultural Lexicon", "Zoroids Cultural Lexicon",
        "Zorax Cultural Lexicon", "Zoruri Cultural Lexicon",
        "Zoreni Cultural Lexicon", "Zoroni Cultural Lexicon",
        "Zorari Cultural Lexicon", "Zoreki Cultural Lexicon",
        "Zoroth Cultural Lexicon", "Zorix Cultural Lexicon">>,
      <<"Krelians Cultural Lexicon", "Kreloids Cultural Lexicon",
        "Krelax Cultural Lexicon", "Kreluri Cultural Lexicon",
        "Kreleni Cultural Lexicon", "Kreloni Cultural Lexicon",
        "Krelari Cultural Lexicon", "Kreleki Cultural Lexicon",
        "Kreloth Cultural Lexicon", "Krelix Cultural Lexicon">>,
      <<"Xanians Cultural Lexicon", "Xanoids Cultural Lexicon",
        "Xanax Cultural Lexicon", "Xanuri Cultural Lexicon",
        "Xaneni Cultural Lexicon", "Xanoni Cultural Lexicon",
        "Xanari Cultural Lexicon", "Xaneki Cultural Lexicon",
        "Xanoth Cultural Lexicon", "Xanix Cultural Lexicon">>,
      <<"Velians Cultural Lexicon", "Veloids Cultural Lexicon",
        "Velax Cultural Lexicon", "Veluri Cultural Lexicon",
        "Veleni Cultural Lexicon", "Veloni Cultural Lexicon",
        "Velari Cultural Lexicon", "Veleki Cultural Lexicon",
        "Veloth Cultural Lexicon", "Velix Cultural Lexicon">>,
      <<"Murians Cultural Lexicon", "Muroids Cultural Lexicon",
        "Murax Cultural Lexicon", "Mururi Cultural Lexicon",
        "Mureni Cultural Lexicon", "Muroni Cultural Lexicon",
        "Murari Cultural Lexicon", "Mureki Cultural Lexicon",
        "Muroth Cultural Lexicon", "Murix Cultural Lexicon">>,
      <<"Thalians Cultural Lexicon", "Thaloids Cultural Lexicon",
        "Thalax Cultural Lexicon", "Thaluri Cultural Lexicon",
        "Thaleni Cultural Lexicon", "Thaloni Cultural Lexicon",
        "Thalari Cultural Lexicon", "Thaleki Cultural Lexicon",
        "Thaloth Cultural Lexicon", "Thalix Cultural Lexicon">>,
      <<"Qorians Cultural Lexicon", "Qoroids Cultural Lexicon",
        "Qorax Cultural Lexicon", "Qoruri Cultural Lexicon",
        "Qoreni Cultural Lexicon", "Qoroni Cultural Lexicon",
        "Qorari Cultural Lexicon", "Qoreki Cultural Lexicon",
        "Qoroth Cultural Lexicon", "Qorix Cultural Lexicon">>,
      <<"Nexians Cultural Lexicon", "Nexoids Cultural Lexicon",
        "Nexax Cultural Lexicon", "Nexuri Cultural Lexicon",
        "Nexeni Cultural Lexicon", "Nexoni Cultural Lexicon",
        "Nexari Cultural Lexicon", "Nexeki Cultural Lexicon",
        "Nexoth Cultural Lexicon", "Nexix Cultural Lexicon">>,
      <<"Paxians Cultural Lexicon", "Paxoids Cultural Lexicon",
        "Paxax Cultural Lexicon", "Paxuri Cultural Lexicon",
        "Paxeni Cultural Lexicon", "Paxoni Cultural Lexicon",
        "Paxari Cultural Lexicon", "Paxeki Cultural Lexicon",
        "Paxoth Cultural Lexicon", "Paxix Cultural Lexicon">>,
      <<"Draians Cultural Lexicon", "Draoids Cultural Lexicon",
        "Draax Cultural Lexicon", "Drauri Cultural Lexicon",
        "Draeni Cultural Lexicon", "Draoni Cultural Lexicon",
        "Draari Cultural Lexicon", "Draeki Cultural Lexicon",
        "Draoth Cultural Lexicon", "Draix Cultural Lexicon">>>>

\* names::THREAT_NAMES
THREAT_NAMES ==
    <<"Space Pirates", "Void Swarm", "Rogue AI Fleet", "Cosmic Storm",
      "Hostile Probes", "Dark Matter Entity", "Quantum Anomaly",
      "Stellar Plague">>

\* names::DISCOVERY_TYPES
DISCOVERY_TYPES ==
    <<"Ancient Archive", "Power Crystal", "Navigation Chart",
      "Shield Technology", "Propulsion Upgrade", "Communication Array",
      "Medical Breakthrough", "Weapons System">>

\* names::RESEARCH_DISCOVERIES
RESEARCH_DISCOVERIES ==
    <<"Quantum Entanglement Drive", "Subspace Field Theory",
      "Graviton Lens Array", "Chrono-Spatial Mapping",
      "Plasma Containment Matrix", "Bio-Neural Computing",
      "Dark Energy Harvesting", "Dimensional Fold Navigation">>

\* format!("Closed-Loop Recycling v{}", severity) for severity 1, 2, 3
RECYCLING_NAMES ==
    <<"Closed-Loop Recycling v1", "Closed-Loop Recycling v2",
      "Closed-Loop Recycling v3">>

(***************************************************************************)
(* templates.rs: the event templates.  Every generate takes the world      *)
(* state and the generator and returns the event with the generator it     *)
(* leaves behind.                                                          *)
(***************************************************************************)
\* What a call returns in place of its result when it panics (a remainder
\* with a divisor of zero, an index outside a list).
Panicked == [panicked |-> TRUE]

\* The generator after k calls of rng.next_u32().
AfterDraws(r, k) == SubSeq(r, k + 1, Len(r))

\* u32::is_multiple_of
IsMultipleOf(d, n) == d % n = 0

\* galaxy.relations.get(name).copied().unwrap_or(Relation::Unknown)
RelationOf(g, name) ==
    IF name \in DOMAIN g.relations THEN g.relations[name] ELSE "Unknown"

\* One (tag, weight) entry of relevant_expertise; the weight in hundredths.
Relevant(tag, weight) == [tag |-> tag, weight |-> weight]

\* ResponseOption { description, outcome: Outcome { description, score_delta,
\* state_changes } }
ResponseOption(description, outcome_description, score_delta, state_changes) ==
    [description |-> description,
     outcome |-> [description |-> outcome_description,
                  score_delta |-> score_delta,
                  state_changes |-> state_changes]]

\* fn random_sector_name: two draws, prefix then suffix.
random_sector_name(r) ==
    [name |-> SECTOR_NAMES[(r[1] % Len(SECTOR_NAMES)) + 1]
                          [(r[2] % Len(SECTOR_NAMES[1])) + 1],
     rng |-> AfterDraws(r, 2)]

\* fn random_species_name: two draws, prefix then suffix.
random_species_name(r) ==
    [name |-> SPECIES_NAMES[(r[1] % Len(SPECIES_NAMES)) + 1]
                           [(r[2] % Len(SPECIES_NAMES[1])) + 1],
     rng |-> AfterDraws(r, 2)]

\* format!("{} Cultural Lexicon", species_name), for a name that
\* random_species_name makes.
CulturalLexicon(species_name) ==
    LET at == CHOOSE ij \in (1..Len(SPECIES_NAMES)) \X (1..Len(SPECIES_NAMES[1])) :
                  SPECIES_NAMES[ij[1]][ij[2]] = species_name
    IN  LEXICON_NAMES[at[1]][at[2]]

\* ---- UnknownSignalTemplate
\* Mutant: a tenth sector still leaves the template applicable.
UnknownSignalApplicableAtTen(g) == Len(g.explored_sectors) <= 10

UnknownSignalApplicable(g) == Len(g.explored_sectors) < 10

UnknownSignalGenerate(g, r) ==
    LET named == random_sector_name(r)
        sector_name == named.name
        d == named.rng[1] % 4
        sector_type == CASE d = 0 -> "Nebula"
                         [] d = 1 -> "AsteroidField"
                         [] d = 2 -> "Habitable"
                         [] OTHER -> "Void"
    IN  [event |->
            [description |-> <<"Long-range sensors detect an unusual signal", sector_name>>,
             relevant_expertise |-> <<Relevant("science", 40),
                                      Relevant("exploration", 40),
                                      Relevant("engineering", 20)>>,
             options |-> <<
                ResponseOption("Dispatch a crewed expedition to investigate",
                    "The expedition successfully charts the sector", 15,
                    <<[type |-> "AddSector",
                       sector |-> [name |-> sector_name, sector_type |-> sector_type]]>>),
                ResponseOption("Send an unmanned probe first",
                    "The probe returns preliminary data", 5, <<>>),
                ResponseOption("Log the signal but focus on known priorities",
                    "The signal is archived", 0, <<>>)>>],
         rng |-> AfterDraws(named.rng, 1)]

\* ---- DerelictTemplate
DerelictApplicable(g) == g.explored_sectors # <<>>

DerelictGenerate(g, r) ==
    IF Len(g.explored_sectors) = 0 THEN Panicked
    ELSE
    LET sector == g.explored_sectors[(r[1] % Len(g.explored_sectors)) + 1]
        discovery == DISCOVERY_TYPES[(r[2] % Len(DISCOVERY_TYPES)) + 1]
        threat == THREAT_NAMES[(r[3] % Len(THREAT_NAMES)) + 1]
        risky_salvage == IsMultipleOf(r[4], 5)
        salvage == [type |-> "AddDiscovery",
                    discovery |-> [name |-> discovery, category |-> "salvage"]]
    IN  [event |->
            [description |-> <<"Scanners pick up a derelict vessel", sector.name>>,
             relevant_expertise |-> <<Relevant("exploration", 35),
                                      Relevant("engineering", 35),
                                      Relevant("science", 20),
                                      Relevant("security", 10)>>,
             options |-> <<
                IF risky_salvage
                THEN ResponseOption("Board the vessel and salvage anything useful",
                        "The boarding team triggers dormant systems", 6,
                        <<salvage,
                          [type |-> "AddThreat",
                           threat |-> [name |-> threat,
                                       severity |-> 1 + (r[5] % 3),
                                       rounds_active |-> 0]]>>)
                ELSE ResponseOption("Board the vessel and salvage anything useful",
                        "The salvage operation is a success", 14, <<salvage>>),
                ResponseOption("Scan it remotely and leave it undisturbed",
                    "Long-range scans yield useful telemetry", 6, <<>>),
                ResponseOption("Mark the location and move on",
                    "The derelict is logged for future expeditions", 1, <<>>)>>],
         rng |-> IF risky_salvage THEN AfterDraws(r, 5) ELSE AfterDraws(r, 4)]

\* ---- AnomalyTemplate
\* Mutant: the template is never applicable.
AnomalyApplicableNever(g) == FALSE

AnomalyApplicable(g) == TRUE

AnomalyGenerate(g, r) ==
    [event |->
        [description |-> <<"A spatial anomaly has been detected nearby">>,
         relevant_expertise |-> <<Relevant("science", 50),
                                  Relevant("engineering", 30),
                                  Relevant("exploration", 20)>>,
         options |-> <<
            IF IsMultipleOf(r[1], 3)
            THEN ResponseOption("Send a research team to study it closely",
                    "The research team makes a breakthrough discovery", 20,
                    <<[type |-> "AddDiscovery",
                       discovery |-> [name |-> "Spatial Dynamics Theory",
                                      category |-> "science"]]>>)
            ELSE ResponseOption("Send a research team to study it closely",
                    "The team gathers useful data", 8, <<>>),
            ResponseOption("Observe from a safe distance with long-range sensors",
                "Remote observations provide some data", 3, <<>>),
            ResponseOption("Mark as hazardous and establish exclusion zone",
                "The anomaly is marked on charts as a navigation hazard", 0, <<>>)>>],
     rng |-> AfterDraws(r, 1)]

\* Mutant: first contact is still possible with five known species.
FirstContactApplicableAtFive(g) == Len(g.known_species) <= 5

\* ---- FirstContactTemplate
FirstContactApplicable(g) == Len(g.known_species) < 5

FirstContactGenerate(g, r) ==
    LET named == random_species_name(r)
        species_name == named.name
        d == named.rng[1] % 3
        traits == CASE d = 0 -> <<"curious", "peaceful">>
                    [] d = 1 -> <<"cautious", "territorial">>
                    [] OTHER -> <<"aggressive", "expansionist">>
        is_hostile == \E i \in 1..Len(traits) : traits[i] = "aggressive"
        add_species == [type |-> "AddSpecies",
                        species |-> [name |-> species_name, traits |-> traits]]
    IN  [event |->
            [description |-> <<"Our explorers have encountered a previously unknown species",
                               species_name, traits>>,
             relevant_expertise |-> <<Relevant("diplomacy", 50),
                                      Relevant("culture", 30),
                                      Relevant("linguistics", 20)>>,
             options |-> <<
                IF is_hostile
                THEN ResponseOption("Initiate peaceful diplomatic contact",
                        "They view our overtures as weakness and become hostile", -10,
                        <<add_species,
                          [type |-> "SetRelation", species |-> species_name,
                           relation |-> "Hostile"]>>)
                ELSE ResponseOption("Initiate peaceful diplomatic contact",
                        "They respond positively", 15,
                        <<add_species,
                          [type |-> "SetRelation", species |-> species_name,
                           relation |-> "Friendly"]>>),
                ResponseOption("Maintain cautious observation before contact",
                    "We observe them from afar", 5, <<add_species>>),
                ResponseOption("Withdraw and avoid contact for now",
                    "We retreat quietly", 0, <<>>)>>],
         rng |-> AfterDraws(named.rng, 1)]

\* ---- ThreatEmergenceTemplate
ThreatEmergenceApplicable(g) == Len(g.threats) < 3

ThreatEmergenceGenerate(g, r) ==
    LET threat_name == THREAT_NAMES[(r[1] % Len(THREAT_NAMES)) + 1]
        severity == (r[2] % 3) + 1
    IN  [event |->
            [description |-> <<"Alert! A threat has been detected approaching our territory",
                               threat_name, severity>>,
             relevant_expertise |-> <<Relevant("military", 50),
                                      Relevant("strategy", 30),
                                      Relevant("engineering", 20)>>,
             options |-> <<
                IF IsMultipleOf(r[3], 2)
                THEN ResponseOption("Confront the threat with immediate military response",
                        "The threat is neutralized", 12, <<>>)
                ELSE ResponseOption("Confront the threat with immediate military response",
                        "Our forces cannot fully repel the threat", -5,
                        <<[type |-> "AddThreat",
                           threat |-> [name |-> threat_name,
                                       severity |-> (severity \div 2) + 1,
                                       rounds_active |-> 0]]>>),
                ResponseOption("Fortify defenses and prepare for siege",
                    "We strengthen our defenses", 3,
                    <<[type |-> "AddThreat",
                       threat |-> [name |-> threat_name, severity |-> severity,
                                   rounds_active |-> 0]]>>),
                ResponseOption("Attempt diplomatic resolution",
                    "Negotiations fail", -15,
                    <<[type |-> "AddThreat",
                       threat |-> [name |-> threat_name, severity |-> severity + 1,
                                   rounds_active |-> 0]]>>)>>],
         rng |-> AfterDraws(r, 3)]

\* ---- ResourceScarcityTemplate
ResourceScarcityApplicable(g) == TRUE

ResourceScarcityGenerate(g, r) ==
    LET severity == (r[1] % 3) + 1
        has_partner == g.known_species # <<>>
        \* after the severity draw
        r2 == AfterDraws(r, 1)
        \* partner: Option<&String>, as a list of at most one name
        partner == IF has_partner
                   THEN <<g.known_species[(r2[1] % Len(g.known_species)) + 1].name>>
                   ELSE <<>>
        r3 == IF has_partner THEN AfterDraws(r2, 1) ELSE r2
        current_relation == IF has_partner THEN RelationOf(g, partner[1]) ELSE "Unknown"
        \* the left operand of &&: the draw on its right is made only when it holds
        may_trade == has_partner /\ current_relation # "Hostile"
        trade_success == may_trade /\ ~IsMultipleOf(r3[1], 4)
        r4 == IF may_trade THEN AfterDraws(r3, 1) ELSE r3
        discovery == RECYCLING_NAMES[severity]
    IN  [event |->
            [description |-> <<"A critical shortage is developing", severity>>,
             relevant_expertise |-> <<Relevant("engineering", 40),
                                      Relevant("strategy", 35),
                                      Relevant("diplomacy", 25)>>,
             options |-> <<
                ResponseOption("Impose rationing and efficiency measures",
                    "Consumption drops and reserves stabilize", 3, <<>>),
                IF partner = <<>>
                THEN ResponseOption("Seek emergency trade and resupply agreements",
                        "We have no established contacts to trade with", -2, <<>>)
                ELSE IF trade_success
                THEN ResponseOption("Seek emergency trade and resupply agreements",
                        "They agree to a resupply deal", 8,
                        <<[type |-> "SetRelation", species |-> partner[1],
                           relation |-> improve_relation(current_relation)]>>)
                ELSE ResponseOption("Seek emergency trade and resupply agreements",
                        "Negotiations stall", -6,
                        <<[type |-> "SetRelation", species |-> partner[1],
                           relation |-> degrade_relation(current_relation)]>>),
                IF IsMultipleOf(r4[1], 3)
                THEN ResponseOption("Attempt a rapid engineering breakthrough",
                        "A rushed but successful retrofit", 12,
                        <<[type |-> "AddDiscovery",
                           discovery |-> [name |-> discovery,
                                          category |-> "engineering"]]>>)
                ELSE ResponseOption("Attempt a rapid engineering breakthrough",
                        "The retrofit program fails", -10,
                        <<[type |-> "AddThreat",
                           threat |-> [name |-> "Resource Shortfall",
                                       severity |-> severity,
                                       rounds_active |-> 0]]>>)>>],
         rng |-> AfterDraws(r4, 1)]

\* ---- ArtifactTemplate
ArtifactApplicable(g) == Len(g.explored_sectors) > 1

ArtifactGenerate(g, r) ==
    LET sector_idx == r[1] % Max(Len(g.explored_sectors), 1)
        sector == IF sector_idx < Len(g.explored_sectors)
                  THEN g.explored_sectors[sector_idx + 1].name
                  ELSE "Home Sector"
        artifact_name == DISCOVERY_TYPES[(r[2] % Len(DISCOVERY_TYPES)) + 1]
        add_artifact == [type |-> "AddDiscovery",
                         discovery |-> [name |-> artifact_name,
                                        category |-> "artifact"]]
    IN  [event |->
            [description |-> <<"Survey teams have discovered an ancient artifact",
                               sector, artifact_name>>,
             relevant_expertise |-> <<Relevant("archaeology", 40),
                                      Relevant("science", 30),
                                      Relevant("engineering", 30)>>,
             options |-> <<
                IF IsMultipleOf(r[3], 4)
                THEN ResponseOption("Attempt to activate the artifact immediately",
                        "The artifact activates but overloads", -10, <<>>)
                ELSE ResponseOption("Attempt to activate the artifact immediately",
                        "The artifact activates successfully", 18, <<add_artifact>>),
                ResponseOption("Carefully study it before attempting activation",
                    "Careful analysis reveals the artifact's secrets safely", 10,
                    <<add_artifact>>),
                ResponseOption("Secure the site for later investigation",
                    "The artifact is secured", 2, <<>>)>>],
         rng |-> AfterDraws(r, 3)]

\* Mutant: a summit can be requested before any species is known.
DiplomaticRequestApplicableAlways(g) == TRUE

\* ---- DiplomaticRequestTemplate
DiplomaticRequestApplicable(g) == g.known_species # <<>>

DiplomaticRequestGenerate(g, r) ==
    IF Len(g.known_species) = 0 THEN Panicked
    ELSE
    LET species_name == g.known_species[(r[1] % Len(g.known_species)) + 1].name
        current_relation == RelationOf(g, species_name)
    IN  [event |->
            [description |-> <<"An envoy requests a formal diplomatic summit",
                               species_name, current_relation>>,
             relevant_expertise |-> <<Relevant("diplomacy", 50),
                                      Relevant("culture", 30),
                                      Relevant("strategy", 20)>>,
             options |-> <<
                ResponseOption("Accept generously",
                    "They are delighted by our generosity", 12,
                    <<[type |-> "SetRelation", species |-> species_name,
                       relation |-> greatly_improve_relation(current_relation)]>>),
                ResponseOption("Negotiate cautiously",
                    "Careful negotiations yield a modest agreement", 5,
                    <<[type |-> "SetRelation", species |-> species_name,
                       relation |-> improve_relation(current_relation)]>>),
                ResponseOption("Decline the summit",
                    "They are offended by our refusal", -2,
                    <<[type |-> "SetRelation", species |-> species_name,
                       relation |-> degrade_relation(current_relation)]>>)>>],
         rng |-> AfterDraws(r, 1)]

\* ---- CulturalExchangeTemplate
\* Mutant: every known species is a candidate.
EverySpecies(g) == g.known_species

\* The known species whose relation is not Hostile, in list order.
NonHostileSpecies(g) ==
    SelectSeq(g.known_species, LAMBDA s : RelationOf(g, s.name) # "Hostile")

CulturalExchangeApplicable(g) ==
    \E i \in 1..Len(g.known_species) :
        RelationOf(g, g.known_species[i].name) # "Hostile"

CulturalExchangeGenerate(g, r) ==
    IF NonHostileSpecies(g) = <<>> /\ Len(g.known_species) = 0 THEN Panicked
    ELSE
    LET candidates == NonHostileSpecies(g)
        chosen == IF candidates = <<>>
                  THEN g.known_species[(r[1] % Len(g.known_species)) + 1]
                  ELSE candidates[(r[1] % Len(candidates)) + 1]
        species_name == chosen.name
        current_relation == RelationOf(g, species_name)
        full_exchange == improve_relation(current_relation)
        limited_exchange == current_relation
        decline_relation == degrade_relation(current_relation)
        add_lexicon == [type |-> "AddDiscovery",
                        discovery |-> [name |-> CulturalLexicon(species_name),
                                       category |-> "culture"]]
        mishap == IsMultipleOf(r[2], 6)
    IN  [event |->
            [description |-> <<"An invitation to a structured cultural exchange",
                               species_name, current_relation>>,
             relevant_expertise |-> <<Relevant("culture", 40),
                                      Relevant("diplomacy", 40),
                                      Relevant("science", 20)>>,
             options |-> <<
                IF mishap
                THEN ResponseOption("Commit fully",
                        "A translation mishap causes offense during the exchange", 2,
                        <<add_lexicon,
                          [type |-> "SetRelation", species |-> species_name,
                           relation |-> degrade_relation(full_exchange)]>>)
                ELSE ResponseOption("Commit fully",
                        "The exchange succeeds", 10,
                        <<add_lexicon,
                          [type |-> "SetRelation", species |-> species_name,
                           relation |-> full_exchange]>>),
                ResponseOption("Accept cautiously",
                    "A small exchange program runs smoothly", 5,
                    <<[type |-> "SetRelation", species |-> species_name,
                       relation |-> limited_exchange]>>),
                ResponseOption("Decline",
                    "We politely decline", -1,
                    <<[type |-> "SetRelation", species |-> species_name,
                       relation |-> decline_relation]>>)>>],
         rng |-> AfterDraws(r, 2)]

\* ---- TechBreakthroughTemplate
TechBreakthroughApplicable(g) == Len(g.discoveries) >= 3

TechBreakthroughGenerate(g, r) ==
    LET discovery_name == RESEARCH_DISCOVERIES[(r[1] % Len(RESEARCH_DISCOVERIES)) + 1]
        add_research == [type |-> "AddDiscovery",
                         discovery |-> [name |-> discovery_name,
                                        category |-> "research"]]
    IN  [event |->
            [description |-> <<"A path to a major breakthrough", discovery_name>>,
             relevant_expertise |-> <<Relevant("science", 50),
                                      Relevant("engineering", 30),
                                      Relevant("exploration", 20)>>,
             options |-> <<
                ResponseOption("Full investment",
                    "Massive investment pays off", 18, <<add_research>>),
                ResponseOption("Methodical research",
                    "Patient research yields results", 8, <<add_research>>),
                ResponseOption("Archive the findings for later",
                    "The research notes are filed away", 2, <<>>)>>],
         rng |-> AfterDraws(r, 1)]

\* ---- the EventTemplate trait over the ten templates, by name()
\* fn default_templates
default_templates ==
    <<"Unknown Signal", "Derelict Vessel", "Spatial Anomaly", "First Contact",
      "Threat Emergence", "Resource Scarcity", "Artifact Discovery",
      "Diplomatic Request", "Cultural Exchange", "Tech Breakthrough">>

\* Mutant: every template is applicable in every world state.
is_applicable_always(template, g) == TRUE

\* EventTemplate::is_applicable
is_applicable(template, g) ==
    CASE template = "Unknown Signal" -> UnknownSignalApplicable(g)
      [] template = "Derelict Vessel" -> DerelictApplicable(g)
      [] template = "Spatial Anomaly" -> AnomalyApplicable(g)
      [] template = "First Contact" -> FirstContactApplicable(g)
      [] template = "Threat Emergence" -> ThreatEmergenceApplicable(g)
      [] template = "Resource Scarcity" -> ResourceScarcityApplicable(g)
      [] template = "Artifact Discovery" -> ArtifactApplicable(g)
      [] template = "Diplomatic Request" -> DiplomaticRequestApplicable(g)
      [] template = "Cultural Exchange" -> CulturalExchangeApplicable(g)
      [] template = "Tech Breakthrough" -> TechBreakthroughApplicable(g)

\* EventTemplate::weight: the trait's default, 10, where a template does not
\* override it.
weight(template) ==
    CASE template = "Unknown Signal" -> 10
      [] template = "Derelict Vessel" -> 6
      [] template = "Spatial Anomaly" -> 8
      [] template = "First Contact" -> 12
      [] template = "Threat Emergence" -> 6
      [] template = "Resource Scarcity" -> 5
      [] template = "Artifact Discovery" -> 7
      [] template = "Diplomatic Request" -> 9
      [] template = "Cultural Exchange" -> 7
      [] template = "Tech Breakthrough" -> 7

\* EventTemplate::generate
generate(template, g, r) ==
    CASE template = "Unknown Signal" -> UnknownSignalGenerate(g, r)
      [] template = "Derelict Vessel" -> DerelictGenerate(g, r)
      [] template = "Spatial Anomaly" -> AnomalyGenerate(g, r)
      [] template = "First Contact" -> FirstContactGenerate(g, r)
      [] template = "Threat Emergence" -> ThreatEmergenceGenerate(g, r)
      [] template = "Resource Scarcity" -> ResourceScarcityGenerate(g, r)
      [] template = "Artifact Discovery" -> ArtifactGenerate(g, r)
      [] template = "Diplomatic Request" -> DiplomaticRequestGenerate(g, r)
      [] template = "Cultural Exchange" -> CulturalExchangeGenerate(g, r)
      [] template = "Tech Breakthrough" -> TechBreakthroughGenerate(g, r)

\* ---- generate_event
\* templates.iter().filter(|t| t.is_applicable(galaxy)).collect()
Applicable(catalog, g) == SelectSeq(catalog, LAMBDA t : is_applicable(t, g))

\* applicable.iter().map(|t| t.weight()).sum()
TotalWeight(applicable) ==
    SumSeq([i \in 1..Len(applicable) |-> weight(applicable[i])])

\* Mutant: the fallback outcome scores nothing.
FallbackEventScoresNothing ==
    [description |-> <<"A quiet period in the cosmos">>,
     relevant_expertise |-> <<>>,
     options |-> <<ResponseOption("Continue as normal", "Business as usual.", 0, <<>>)>>]

\* The event returned when no template is applicable.
FallbackEvent ==
    [description |-> <<"A quiet period in the cosmos">>,
     relevant_expertise |-> <<>>,
     options |-> <<ResponseOption("Continue as normal", "Business as usual.", 1, <<>>)>>]

\* Mutant: the scan stops at a template whose weight equals the roll.
RECURSIVE ScanInclusive(_, _, _)
ScanInclusive(applicable, i, roll) ==
    IF i > Len(applicable) THEN i
    ELSE IF roll <= weight(applicable[i]) THEN i
    ELSE ScanInclusive(applicable, i + 1, roll - weight(applicable[i]))

\* The selection loop from its i-th template on: the index of the template
\* it returns with, Len(applicable) + 1 when it runs to its end.
RECURSIVE Scan(_, _, _)
Scan(applicable, i, roll) ==
    IF i > Len(applicable) THEN i
    ELSE IF roll < weight(applicable[i]) THEN i
    ELSE Scan(applicable, i + 1, roll - weight(applicable[i]))

\* pub fn generate_event
generate_event(catalog, g, r) ==
    LET applicable == Applicable(catalog, g)
    IN  IF applicable = <<>>
        THEN [event |-> FallbackEvent, rng |-> r]
        ELSE LET total_weight == TotalWeight(applicable)
             IN  IF total_weight = 0 THEN Panicked
                 ELSE LET roll == r[1] % total_weight
                          i == Scan(applicable, 1, roll)
                      IN  IF i <= Len(applicable)
                          THEN generate(applicable[i], g, AfterDraws(r, 1))
                          ELSE generate(applicable[1], g, AfterDraws(r, 1))

\* ---- the state changes a caller passes
SectorInputs ==
    {[name |-> "Home Sector", sector_type |-> "Nebula"],
     [name |-> "Alpha Quadrant", sector_type |-> "Nebula"],
     [name |-> "Alpha Quadrant", sector_type |-> "Void"]}
SpeciesNames == {"Zorblax", "Krell"}
SpeciesInputs ==
    {[name |-> "Zorblax", traits |-> <<"curious">>],
     [name |-> "Zorblax", traits |-> <<>>],
     [name |-> "Krell", traits |-> <<"curious">>]}
DiscoveryInputs == {[name |-> "Warp Drive", category |-> "technology"]}
ThreatNames == {"Space Pirates", "Minor Issue"}
Severities == {0, 1, 2}
Deltas == {-2, -1, 1}

StateChange ==
    [type : {"AddSector"}, sector : SectorInputs]
    \cup [type : {"AddSpecies"}, species : SpeciesInputs]
    \cup [type : {"SetRelation"}, species : SpeciesNames, relation : Relation]
    \cup [type : {"AddDiscovery"}, discovery : DiscoveryInputs]
    \cup [type : {"AddThreat"},
          threat : [name : ThreatNames, severity : Severities, rounds_active : {0}]]
    \cup [type : {"RemoveThreat"}, name : ThreatNames]
    \cup [type : {"ModifyThreatSeverity"}, name : ThreatNames, delta : Deltas]

(***************************************************************************)
(* The calls.  Each specification drives one operation; the variables of   *)
(* the other operations stay at their initial values.                      *)
(***************************************************************************)
VoteIdle ==
    /\ votes = <<>>
    /\ num_options = 0
    /\ winner = 0
    /\ vote_pc = "idle"

WeightIdle ==
    /\ bot_expertise = <<>>
    /\ relevant_expertise = <<>>
    /\ vote_weight = 0
    /\ weight_pc = "idle"

GalaxyInit ==
    /\ galaxy = GalaxyNew
    /\ prev_galaxy = GalaxyNew
    /\ changes = <<>>
    /\ penalty = 0
    /\ op = "new"
    /\ steps = 0
    /\ counts = <<>>

RelIdle ==
    /\ rel_current = "Unknown"
    /\ rel_prev = "Unknown"
    /\ rel_step = "none"
    /\ rel_trace = <<>>

ScoreIdle ==
    /\ score = ScoreNew
    /\ prev_score = ScoreNew
    /\ score_args = <<>>
    /\ score_query = "none"
    /\ score_result = <<>>

ApplicableIdle ==
    /\ asked = "none"
    /\ answer = <<>>

EventIdle ==
    /\ ApplicableIdle
    /\ templates = <<>>
    /\ rng = <<>>
    /\ rng_start = <<>>
    /\ event = NoEvent
    /\ event_pc = "idle"

CouncilIdle ==
    /\ ollama = <<>>
    /\ cfg_deliberate = FALSE
    /\ lines = <<>>
    /\ event_for_vote = NoEvent
    /\ calls = <<>>
    /\ council_pc = "idle"

DriverIdle ==
    /\ pc = "idle"
    /\ cfg_rounds = 0
    /\ loop_round = 0
    /\ bots = <<>>
    /\ log = <<>>
    /\ CouncilIdle

\* ---- resolve_votes on every vote list and option count within the bounds
InitVote ==
    /\ votes \in SeqsUpTo(Vote, MaxVotes)
    /\ num_options \in 0..MaxOptions
    /\ winner = 0
    /\ vote_pc = "call"
    /\ WeightIdle
    /\ GalaxyInit
    /\ RelIdle
    /\ ScoreIdle
    /\ EventIdle
    /\ DriverIdle

ResolveVotes ==
    /\ vote_pc = "call"
    /\ winner' = resolve_votes(votes, num_options)
    /\ vote_pc' = "done"
    /\ UNCHANGED <<votes, num_options, weightVars, galaxyVars,
                   relVars, scoreVars, eventVars, driverVars>>

NextVote == ResolveVotes

SpecVote == InitVote /\ [][NextVote]_vars

\* ---- calculate_vote_weight on every bot and event within the bounds
Expertise == [tag : Tags, proficiency : Proficiencies]
RelevantExpertise == [tag : Tags, weight : EventWeights]

InitWeight ==
    /\ bot_expertise \in SeqsUpTo(Expertise, MaxTags)
    /\ relevant_expertise \in SeqsUpTo(RelevantExpertise, MaxTags)
    /\ vote_weight = 0
    /\ weight_pc = "call"
    /\ VoteIdle
    /\ GalaxyInit
    /\ RelIdle
    /\ ScoreIdle
    /\ EventIdle
    /\ DriverIdle

CalculateVoteWeight ==
    /\ weight_pc = "call"
    /\ vote_weight' = calculate_vote_weight(bot_expertise, relevant_expertise)
    /\ weight_pc' = "done"
    /\ UNCHANGED <<bot_expertise, relevant_expertise, voteVars, galaxyVars,
                   relVars, scoreVars, eventVars, driverVars>>

NextWeight == CalculateVoteWeight

SpecWeight == InitWeight /\ [][NextWeight]_vars

\* ---- apply_changes and process_threats on a GalaxyState, from new()
Init ==
    /\ GalaxyInit
    /\ VoteIdle
    /\ WeightIdle
    /\ RelIdle
    /\ ScoreIdle
    /\ EventIdle
    /\ DriverIdle

ApplyChanges ==
    \E k \in 0..(MaxSteps - steps) : \E cs \in [1..k -> StateChange] :
        /\ prev_galaxy' = galaxy
        /\ changes' = cs
        /\ galaxy' = apply_changes(galaxy, cs)
        /\ op' = "apply_changes"
        /\ steps' = steps + Len(cs)
        /\ counts' = <<>>
        /\ UNCHANGED <<penalty, voteVars, weightVars,
                       relVars, scoreVars, eventVars, driverVars>>

ProcessThreats ==
    /\ steps < MaxSteps
    /\ prev_galaxy' = galaxy
    /\ changes' = <<>>
    /\ galaxy' = process_threats_state(galaxy)
    /\ penalty' = process_threats_penalty(galaxy.threats)
    /\ op' = "process_threats"
    /\ steps' = steps + 1
    /\ counts' = <<>>
    /\ UNCHANGED <<voteVars, weightVars, relVars, scoreVars, eventVars, driverVars>>

CountRelations ==
    /\ op # "counts"
    /\ prev_galaxy' = galaxy
    /\ changes' = <<>>
    /\ counts' = <<allied_count(galaxy), hostile_count(galaxy)>>
    /\ op' = "counts"
    /\ UNCHANGED <<galaxy, penalty, steps, voteVars, weightVars, relVars, scoreVars,
                   eventVars, driverVars>>

Next == ApplyChanges \/ ProcessThreats \/ CountRelations

Spec == Init /\ [][Next]_vars

\* ---- the relation steps, one after another, from every Relation
InitRelation ==
    /\ rel_current \in Relation
    /\ rel_prev = rel_current
    /\ rel_step = "none"
    /\ rel_trace = <<>>
    /\ VoteIdle
    /\ WeightIdle
    /\ GalaxyInit
    /\ ScoreIdle
    /\ EventIdle
    /\ DriverIdle

ImproveRelation ==
    /\ Len(rel_trace) < MaxRelSteps
    /\ rel_prev' = rel_current
    /\ rel_current' = improve_relation(rel_current)
    /\ rel_step' = "improve"
    /\ rel_trace' = Append(rel_trace, "improve")
    /\ UNCHANGED <<voteVars, weightVars, galaxyVars, scoreVars, eventVars, driverVars>>

DegradeRelation ==
    /\ Len(rel_trace) < MaxRelSteps
    /\ rel_prev' = rel_current
    /\ rel_current' = degrade_relation(rel_current)
    /\ rel_step' = "degrade"
    /\ rel_trace' = Append(rel_trace, "degrade")
    /\ UNCHANGED <<voteVars, weightVars, galaxyVars, scoreVars, eventVars, driverVars>>

GreatlyImproveRelation ==
    /\ Len(rel_trace) < MaxRelSteps
    /\ rel_prev' = rel_current
    /\ rel_current' = greatly_improve_relation(rel_current)
    /\ rel_step' = "greatly_improve"
    /\ rel_trace' = Append(rel_trace, "greatly_improve")
    /\ UNCHANGED <<voteVars, weightVars, galaxyVars, scoreVars, eventVars, driverVars>>

NextRelation == ImproveRelation \/ DegradeRelation \/ GreatlyImproveRelation

SpecRelation == InitRelation /\ [][NextRelation]_vars

\* ---- ScoreTracker::add on a new tracker
ScoreRounds == {1, 2}
ScoreDeltas == {-15, -3, 0, 1, 20}
ScoreReasons == {"Business as usual.", "Unresolved threats"}

InitScore ==
    /\ ScoreIdle
    /\ VoteIdle
    /\ WeightIdle
    /\ GalaxyInit
    /\ RelIdle
    /\ EventIdle
    /\ DriverIdle

ScoreAdd ==
    /\ Len(score.history) < MaxHistory
    /\ \E round \in ScoreRounds, delta \in ScoreDeltas, reason \in ScoreReasons :
          /\ prev_score' = score
          /\ score_args' = <<[round |-> round, delta |-> delta, reason |-> reason]>>
          /\ score' = add(score, round, delta, reason)
    /\ score_query' = "none"
    /\ score_result' = <<>>
    /\ UNCHANGED <<voteVars, weightVars, galaxyVars, relVars, eventVars, driverVars>>

BestMoment ==
    /\ score_query' = "best_moment"
    /\ score_result' = best_moment(score)
    /\ UNCHANGED <<score, prev_score, score_args, voteVars, weightVars, galaxyVars,
                   relVars, eventVars, driverVars>>

WorstMoment ==
    /\ score_query' = "worst_moment"
    /\ score_result' = worst_moment(score)
    /\ UNCHANGED <<score, prev_score, score_args, voteVars, weightVars, galaxyVars,
                   relVars, eventVars, driverVars>>

NextScore == ScoreAdd \/ BestMoment \/ WorstMoment

SpecScore == InitScore /\ [][NextScore]_vars

\* ---- ScoreTracker::rating on a tracker whose total field was set
InitRating ==
    /\ score \in {[total |-> t, history |-> <<>>] : t \in (0 - MaxTotal)..MaxTotal}
    /\ prev_score = score
    /\ score_args = <<>>
    /\ score_query = "none"
    /\ score_result = <<>>
    /\ VoteIdle
    /\ WeightIdle
    /\ GalaxyInit
    /\ RelIdle
    /\ EventIdle
    /\ DriverIdle

Rating ==
    /\ score_query = "none"
    /\ score_query' = "rating"
    /\ score_result' = <<rating(score)>>
    /\ UNCHANGED <<score, prev_score, score_args, voteVars, weightVars, galaxyVars,
                   relVars, eventVars, driverVars>>

NextRating == Rating

SpecRating == InitRating /\ [][NextRating]_vars

\* ---- generate_event on a catalog, a world state and a generator
\* GalaxyState::default(): the derived Default, with no explored sector.
GalaxyDefault ==
    [round |-> 0,
     explored_sectors |-> <<>>,
     known_species |-> <<>>,
     relations |-> EmptyMap,
     discoveries |-> <<>>,
     threats |-> <<>>]

\* The changes that add n sectors, n discoveries and n threats.
SectorsSetup(n) ==
    [i \in 1..n |-> [type |-> "AddSector",
                     sector |-> [name |-> SECTOR_NAMES[i][1],
                                 sector_type |-> "Nebula"]]]
DiscoveriesSetup(n) ==
    [i \in 1..n |-> [type |-> "AddDiscovery",
                     discovery |-> [name |-> DISCOVERY_TYPES[i],
                                    category |-> "salvage"]]]
ThreatsSetup(n) ==
    [i \in 1..n |-> [type |-> "AddThreat",
                     threat |-> [name |-> THREAT_NAMES[i], severity |-> i,
                                 rounds_active |-> 0]]]

\* The changes that make one species known for every relation of the list,
\* and set that relation.
RECURSIVE SpeciesSetup(_)
SpeciesSetup(relations) ==
    IF relations = <<>> THEN <<>>
    ELSE LET i == Len(relations)
         IN  SpeciesSetup(SubSeq(relations, 1, i - 1))
             \o <<[type |-> "AddSpecies",
                   species |-> [name |-> SPECIES_NAMES[i][1],
                                traits |-> <<"curious", "peaceful">>]],
                  [type |-> "SetRelation", species |-> SPECIES_NAMES[i][1],
                   relation |-> relations[i]]>>

\* The world states: without a sector (the derived Default) or with 1, 2 or
\* 10; without species, with one friendly, one hostile, a hostile and an
\* unmet one, or five hostile ones; with 0 or 3 discoveries and threats.
WorldRelations ==
    {<<>>, <<"Friendly">>, <<"Hostile">>, <<"Hostile", "Unknown">>,
     <<"Hostile", "Hostile", "Hostile", "Hostile", "Hostile">>}

Worlds ==
    {apply_changes(GalaxyDefault, SpeciesSetup(rs) \o ThreatsSetup(n))
        : rs \in WorldRelations, n \in {0, 3}}
    \cup {apply_changes(GalaxyNew,
              SectorsSetup(k) \o SpeciesSetup(rs) \o DiscoveriesSetup(n) \o ThreatsSetup(n))
            : k \in {0, 1, 9}, rs \in WorldRelations, n \in {0, 3}}

\* The catalogs: the default one, the empty one, the templates that are not
\* applicable in a new galaxy, and two templates in another order than the
\* default catalog's.
Catalogs ==
    {default_templates,
     <<>>,
     <<"Tech Breakthrough", "Cultural Exchange", "Diplomatic Request",
       "Artifact Discovery">>,
     <<"Resource Scarcity", "Unknown Signal">>}

\* The first value of a generator selects the template: one value at the
\* start of every template's interval of the full default catalog, and the
\* last value of the catalog's first interval.
SelectDraws == {0, 9, 10, 16, 24, 36, 42, 47, 54, 63, 70}
\* The following values choose names and branches.
BranchDraws == {0, 1, 2}

Streams ==
    {<<d>> \o rest : d \in SelectDraws, rest \in [1..(MaxDraws - 1) -> BranchDraws]}

EventStart ==
    /\ templates \in Catalogs
    /\ rng \in Streams
    /\ rng_start = rng
    /\ event = NoEvent
    /\ event_pc = "call"

InitEvent ==
    /\ EventStart
    /\ ApplicableIdle
    /\ galaxy \in Worlds
    /\ prev_galaxy = galaxy
    /\ changes = <<>>
    /\ penalty = 0
    /\ op = "new"
    /\ steps = 0
    /\ counts = <<>>
    /\ VoteIdle
    /\ WeightIdle
    /\ RelIdle
    /\ ScoreIdle
    /\ DriverIdle

GenerateEvent ==
    /\ event_pc = "call"
    /\ LET out == generate_event(templates, galaxy, rng)
       IN  IF out = Panicked
           THEN /\ event_pc' = "panicked"
                /\ UNCHANGED <<event, rng>>
           ELSE /\ event_pc' = "done"
                /\ event' = out.event
                /\ rng' = out.rng
    /\ rng_start' = rng
    /\ UNCHANGED <<templates, applicableVars, voteVars, weightVars, galaxyVars, relVars, scoreVars,
                   driverVars>>

NextEvent == GenerateEvent

SpecEvent == InitEvent /\ [][NextEvent]_vars

\* ---- is_applicable of every template on a world state
\* The world states asked about: 0, 1, 2, 9, 10 or 11 sectors; 0, 1, 4, 5 or
\* 6 known species, hostile or not; 0, 2, 3 or 4 threats and discoveries.
ApplicableRelations ==
    {<<>>, <<"Hostile">>, <<"Friendly">>, <<"Hostile", "Unknown">>,
     <<"Hostile", "Hostile", "Hostile", "Hostile">>,
     <<"Hostile", "Hostile", "Hostile", "Hostile", "Hostile">>,
     <<"Hostile", "Hostile", "Hostile", "Hostile", "Hostile", "Wary">>}

ApplicableSectors ==
    {apply_changes(start, SectorsSetup(k)) :
        start \in {GalaxyDefault, GalaxyNew}, k \in {0, 1, 8, 9, 10}}

ApplicableSpecies ==
    {apply_changes(w, SpeciesSetup(rs)) :
        w \in ApplicableSectors, rs \in ApplicableRelations}

ApplicableWorlds ==
    {apply_changes(w, DiscoveriesSetup(d) \o ThreatsSetup(t)) :
        w \in ApplicableSpecies, d \in {0, 2, 3, 4}, t \in {0, 2, 3, 4}}

InitApplicable ==
    /\ galaxy \in ApplicableWorlds
    /\ prev_galaxy = galaxy
    /\ changes = <<>>
    /\ penalty = 0
    /\ op = "new"
    /\ steps = 0
    /\ counts = <<>>
    /\ EventIdle
    /\ VoteIdle
    /\ WeightIdle
    /\ RelIdle
    /\ ScoreIdle
    /\ DriverIdle

\* template.is_applicable(&galaxy), on a template of the default catalog
IsApplicable ==
    /\ asked = "none"
    /\ \E i \in 1..Len(default_templates) :
          /\ asked' = default_templates[i]
          /\ answer' = <<is_applicable(default_templates[i], galaxy)>>
    /\ UNCHANGED <<templates, rng, rng_start, event, event_pc, voteVars, weightVars,
                   galaxyVars, relVars, scoreVars, driverVars>>

NextApplicable == IsApplicable

SpecApplicable == InitApplicable /\ [][NextApplicable]_vars

(***************************************************************************)
(* main.rs: the round loop.  The generator is seeded from entropy, so      *)
(* every generate_event call sees some stream of u32 values; a member's    *)
(* vote() is any usize (the trait fixes no range, and a member backed by a *)
(* text-generation service returns what the service answers).              *)
(***************************************************************************)
\* The members main puts on the council, in its order, with name() and
\* expertise() (proficiencies in tenths).
Council ==
    <<[name |-> "example-bot",
       expertise |-> <<[tag |-> "engineering", proficiency |-> 6],
                       [tag |-> "science", proficiency |-> 4]>>],
      [name |-> "first-bot",
       expertise |-> <<[tag |-> "exploration", proficiency |-> 8],
                       [tag |-> "science", proficiency |-> 5]>>],
      [name |-> "cycle-bot",
       expertise |-> <<[tag |-> "culture", proficiency |-> 7],
                       [tag |-> "linguistics", proficiency |-> 5],
                       [tag |-> "archaeology", proficiency |-> 3]>>],
      [name |-> "contrarian-bot",
       expertise |-> <<[tag |-> "military", proficiency |-> 8],
                       [tag |-> "strategy", proficiency |-> 7],
                       [tag |-> "diplomacy", proficiency |-> 4],
                       [tag |-> "exploration", proficiency |-> 3]>>],
      [name |-> "oracle-bot",
       expertise |-> <<[tag |-> "strategy", proficiency |-> 9],
                       [tag |-> "science", proficiency |-> 7],
                       [tag |-> "diplomacy", proficiency |-> 6],
                       [tag |-> "exploration", proficiency |-> 5],
                       [tag |-> "engineering", proficiency |-> 4]>>]>>

\* What a member's vote() returns: the index of an option, or an index past
\* the options of every event.
RawVotes == {0, 1, 7}

Min(a, b) == IF a <= b THEN a ELSE b

\* usize::saturating_sub
saturating_sub(a, b) == IF a >= b THEN a - b ELSE 0

\* Mutant: the choice is handed on as the member returned it.
ClampChoiceNot(chosen, e) == chosen

\* chosen.min(event.options.len().saturating_sub(1))
ClampChoice(chosen, e) == Min(chosen, saturating_sub(Len(e.options), 1))

\* Mutant: the range is 1..cfg.rounds, without its upper end.
RangeHasNextExclusive(r, last) == r + 1 < last

\* 1..=cfg.rounds has a value after r (r is 0 before the first).
RangeHasNext(r, last) == r < last

\* Mutant: the threat penalty is recorded in every round.
ShouldRecordPenaltyAlways(threat_penalty) == TRUE

\* Mutant: the threat penalty is never recorded.
ShouldRecordPenaltyNever(threat_penalty) == FALSE

\* if threat_penalty != 0
ShouldRecordPenalty(threat_penalty) == threat_penalty # 0

\* The log after one more step, with the number of threats active when the
\* step started.
Logged(r, step, arg) ==
    Append(log, [round |-> r, step |-> step, arg |-> arg,
                 threats |-> Len(galaxy.threats)])

\* The state before the loop: templates, galaxy and score as main creates
\* them, a council of the first members, cfg.rounds at least 1.
InitDriver ==
    /\ pc = "loop"
    /\ cfg_rounds \in 1..MaxRounds
    /\ loop_round = 0
    /\ bots \in {SubSeq(Council, 1, n) : n \in 1..MaxBots}
    /\ log = <<>>
    /\ templates = default_templates
    /\ rng = <<>>
    /\ rng_start = <<>>
    /\ event = NoEvent
    /\ event_pc = "idle"
    /\ ApplicableIdle
    /\ GalaxyInit
    /\ ScoreIdle
    /\ VoteIdle
    /\ WeightIdle
    /\ RelIdle
    /\ CouncilIdle

\* for round in 1..=cfg.rounds { galaxy.round = round;
SetRound ==
    /\ pc = "loop"
    /\ RangeHasNext(loop_round, cfg_rounds)
    /\ loop_round' = loop_round + 1
    /\ prev_galaxy' = galaxy
    /\ galaxy' = [galaxy EXCEPT !.round = loop_round + 1]
    /\ changes' = <<>>
    /\ op' = "set_round"
    /\ pc' = "generate"
    /\ log' = Logged(loop_round + 1, "set_round", loop_round + 1)
    /\ UNCHANGED <<penalty, steps, counts, cfg_rounds, councilVars, bots, voteVars, weightVars, relVars,
                   scoreVars, eventVars>>

\* The range 1..=cfg.rounds is exhausted.
Finish ==
    /\ pc = "loop"
    /\ ~RangeHasNext(loop_round, cfg_rounds)
    /\ pc' = "done"
    /\ UNCHANGED <<cfg_rounds, councilVars, loop_round, bots, log, voteVars, weightVars, galaxyVars,
                   relVars, scoreVars, eventVars>>

\* let event = generate_event(&templates, &galaxy, &mut rng);
\* let mut votes = Vec::new();
DriverGenerateEvent ==
    /\ pc = "generate"
    /\ \E r \in Streams :
          LET out == generate_event(templates, galaxy, r)
          IN  IF out = Panicked
              THEN /\ pc' = "panicked"
                   /\ UNCHANGED <<event, votes, log>>
              ELSE /\ pc' = "vote"
                   /\ event' = out.event
                   /\ votes' = <<>>
                   /\ log' = Logged(loop_round, "generate", 0)
    /\ UNCHANGED <<num_options, winner, vote_pc, templates, rng, rng_start, event_pc,
                   applicableVars,
                   cfg_rounds, councilVars, loop_round, bots, weightVars, galaxyVars, relVars, scoreVars>>

\* One pass of for bot in &bots { .. votes.push(Vote { .. }) }
CollectVote ==
    /\ pc = "vote"
    /\ Len(votes) < Len(bots)
    /\ LET bot == bots[Len(votes) + 1]
           w == calculate_vote_weight(bot.expertise, event.relevant_expertise)
       IN  \E chosen \in RawVotes :
              votes' = Append(votes, [bot_name |-> bot.name,
                                      chosen_option |-> ClampChoice(chosen, event),
                                      weight |-> w])
    /\ log' = Logged(loop_round, "vote", Len(votes) + 1)
    /\ UNCHANGED <<pc, num_options, winner, vote_pc, cfg_rounds, councilVars, loop_round, bots,
                   weightVars, galaxyVars, relVars, scoreVars, eventVars>>

\* let winner = resolve_votes(&votes, event.options.len());
\* let outcome = &event.options[winner].outcome;
ResolveRound ==
    /\ pc = "vote"
    /\ Len(votes) = Len(bots)
    /\ num_options' = Len(event.options)
    /\ winner' = resolve_votes(votes, Len(event.options))
    /\ IF winner' < Len(event.options)
       THEN /\ pc' = "record_outcome"
            /\ log' = Logged(loop_round, "resolve", winner')
       ELSE /\ pc' = "panicked"
            /\ UNCHANGED log
    /\ UNCHANGED <<votes, vote_pc, cfg_rounds, councilVars, loop_round, bots, weightVars, galaxyVars,
                   relVars, scoreVars, eventVars>>

\* score.add(round, outcome.score_delta, &outcome.description);
RecordOutcome ==
    /\ pc = "record_outcome"
    /\ LET outcome == event.options[winner + 1].outcome
       IN  /\ prev_score' = score
           /\ score_args' = <<[round |-> loop_round, delta |-> outcome.score_delta,
                               reason |-> outcome.description]>>
           /\ score' = add(score, loop_round, outcome.score_delta, outcome.description)
           /\ UNCHANGED <<score_query, score_result>>
           /\ log' = Logged(loop_round, "record_outcome", outcome.score_delta)
    /\ pc' = "apply_outcome"
    /\ UNCHANGED <<cfg_rounds, councilVars, loop_round, bots, voteVars, weightVars, galaxyVars, relVars,
                   eventVars>>

\* galaxy.apply_changes(&outcome.state_changes);
ApplyOutcome ==
    /\ pc = "apply_outcome"
    /\ LET outcome == event.options[winner + 1].outcome
       IN  /\ prev_galaxy' = galaxy
           /\ changes' = outcome.state_changes
           /\ galaxy' = apply_changes(galaxy, outcome.state_changes)
           /\ log' = Logged(loop_round, "apply_outcome", Len(outcome.state_changes))
    /\ op' = "apply_changes"
    /\ pc' = "process_threats"
    /\ UNCHANGED <<penalty, steps, counts, cfg_rounds, councilVars, loop_round, bots, voteVars, weightVars,
                   relVars, scoreVars, eventVars>>

\* let threat_penalty = galaxy.process_threats();
DriverProcessThreats ==
    /\ pc = "process_threats"
    /\ prev_galaxy' = galaxy
    /\ changes' = <<>>
    /\ galaxy' = process_threats_state(galaxy)
    /\ penalty' = process_threats_penalty(galaxy.threats)
    /\ op' = "process_threats"
    /\ pc' = "threat_penalty"
    /\ log' = Logged(loop_round, "process_threats", penalty')
    /\ UNCHANGED <<steps, counts, cfg_rounds, councilVars, loop_round, bots, voteVars, weightVars, relVars,
                   scoreVars, eventVars>>

\* if threat_penalty != 0 { score.add(round, threat_penalty, "Unresolved
\* threats"); } and the end of the loop body.
RecordPenalty ==
    /\ pc = "threat_penalty"
    /\ IF ShouldRecordPenalty(penalty)
       THEN /\ prev_score' = score
            /\ score_args' = <<[round |-> loop_round, delta |-> penalty,
                                reason |-> "Unresolved threats"]>>
            /\ score' = add(score, loop_round, penalty, "Unresolved threats")
            /\ UNCHANGED <<score_query, score_result>>
            /\ log' = Logged(loop_round, "record_penalty", penalty)
       ELSE UNCHANGED <<scoreVars, log>>
    /\ pc' = "loop"
    /\ UNCHANGED <<cfg_rounds, councilVars, loop_round, bots, voteVars, weightVars, galaxyVars, relVars,
                   eventVars>>

NextDriver ==
    \/ SetRound
    \/ Finish
    \/ DriverGenerateEvent
    \/ CollectVote
    \/ ResolveRound
    \/ RecordOutcome
    \/ ApplyOutcome
    \/ DriverProcessThreats
    \/ RecordPenalty

SpecDriver == InitDriver /\ [][NextDriver]_vars

\* ---- the round loop from a state that rounds played before have led to
\* The rounds the loop continues for.
MaxMoreRounds == 1

\* The value of the selecting draw that falls on the template, the first
\* value of its interval: the weights of the applicable templates before it.
SelectFor(template, g) ==
    LET applicable == Applicable(default_templates, g)
        at == CHOOSE i \in 1..Len(applicable) : applicable[i] = template
    IN  SumSeq([j \in 1..(at - 1) |-> weight(applicable[j])])

\* One pass of the loop body, for a round whose event comes from the given
\* template with the given following draws and whose winner is the given
\* option: galaxy.round = round, generate_event, score.add, apply_changes,
\* process_threats, and score.add of a penalty that is not 0.
PlayRound(st, move) ==
    LET round == st.galaxy.round + 1
        g1 == [st.galaxy EXCEPT !.round = round]
        e == generate_event(default_templates, g1,
                            <<SelectFor(move.template, g1)>> \o move.draws).event
        outcome == e.options[move.winner + 1].outcome
        score1 == add(st.score, round, outcome.score_delta, outcome.description)
        g2 == apply_changes(g1, outcome.state_changes)
        threat_penalty == process_threats_penalty(g2.threats)
    IN  [galaxy |-> process_threats_state(g2),
         before_threats |-> g2,
         penalty |-> threat_penalty,
         score |-> IF ShouldRecordPenalty(threat_penalty)
                   THEN add(score1, round, threat_penalty, "Unresolved threats")
                   ELSE score1]

Move(template, draws, option) ==
    [template |-> template, draws |-> draws, winner |-> option]

\* Nine rounds that chart a sector each.
SectorMoves ==
    [i \in 1..9 |-> Move("Unknown Signal", <<i - 1, 0, 0, 0, 0>>, 0)]

\* Five rounds that meet a species each: two become friendly, two hostile,
\* and one is only observed.
SpeciesMoves ==
    <<Move("First Contact", <<0, 0, 0, 0, 0>>, 0),
      Move("First Contact", <<1, 0, 2, 0, 0>>, 0),
      Move("First Contact", <<2, 0, 1, 0, 0>>, 1),
      Move("First Contact", <<3, 0, 0, 0, 0>>, 0),
      Move("First Contact", <<4, 0, 2, 0, 0>>, 0)>>

\* Nine rounds that leave a threat each: three through Threat Emergence, five
\* through a risky salvage of a derelict, one through a failed retrofit.
ThreatMoves ==
    <<Move("Threat Emergence", <<5, 0, 0, 0, 0>>, 1),
      Move("Threat Emergence", <<6, 1, 0, 0, 0>>, 1),
      Move("Threat Emergence", <<7, 2, 0, 0, 0>>, 2),
      Move("Derelict Vessel", <<0, 0, 0, 0, 0>>, 0),
      Move("Derelict Vessel", <<0, 1, 1, 0, 1>>, 0),
      Move("Derelict Vessel", <<0, 2, 2, 0, 2>>, 0),
      Move("Derelict Vessel", <<0, 3, 3, 0, 0>>, 0),
      Move("Derelict Vessel", <<0, 4, 4, 0, 1>>, 0),
      Move("Resource Scarcity", <<2, 1, 0, 0, 0>>, 2)>>

\* The state before the loop, as main creates it.
BeforeLoop ==
    [galaxy |-> GalaxyNew, before_threats |-> GalaxyNew, penalty |-> 0,
     score |-> ScoreNew]

\* The states after 0, 1, .. rounds of a list of moves.
RECURSIVE Played(_, _)
Played(moves, k) ==
    IF k = 0 THEN {BeforeLoop}
    ELSE LET before == Played(moves, k - 1)
         IN  before \cup {PlayRound(st, moves[k]) :
                             st \in {b \in before : b.galaxy.round = k - 1}}

PlayedStates ==
    Played(SectorMoves \o SpeciesMoves, Len(SectorMoves) + Len(SpeciesMoves))
    \cup Played(SpeciesMoves, Len(SpeciesMoves))
    \cup Played(ThreatMoves, Len(ThreatMoves))

\* The loop with MaxMoreRounds rounds to go; log holds the steps from here on.
InitCampaign ==
    /\ pc = "loop"
    /\ \E st \in PlayedStates :
          /\ galaxy = st.galaxy
          /\ prev_galaxy = st.before_threats
          /\ penalty = st.penalty
          /\ op = IF st.galaxy.round = 0 THEN "new" ELSE "process_threats"
          /\ score = st.score
          /\ prev_score = st.score
          /\ loop_round = st.galaxy.round
          /\ cfg_rounds = st.galaxy.round + MaxMoreRounds
    /\ changes = <<>>
    /\ steps = 0
    /\ counts = <<>>
    /\ score_args = <<>>
    /\ score_query = "none"
    /\ score_result = <<>>
    /\ bots \in {SubSeq(Council, 1, n) : n \in 1..MaxBots}
    /\ log = <<>>
    /\ templates = default_templates
    /\ rng = <<>>
    /\ rng_start = <<>>
    /\ event = NoEvent
    /\ event_pc = "idle"
    /\ ApplicableIdle
    /\ VoteIdle
    /\ WeightIdle
    /\ RelIdle
    /\ CouncilIdle

SpecCampaign == InitCampaign /\ [][NextDriver]_vars


(***************************************************************************)
(* The bots crates: the members' vote() and comment(), and ollama.rs: what *)
(* a call to the text-generation service gives back.  The service is       *)
(* outside the program: a call ends in a connection error, a bad status,   *)
(* an answer without a choice, or an answer with one.  The answer depends  *)
(* on the prompt, and the prompt holds the event's description.            *)
(***************************************************************************)
MaxMembers == 2

\* The outcomes of llm_generate / ollama_generate followed by the parse of
\* the answer: three failures, and the choices the answer can name.
Replies ==
    {<<"connection error">>, <<"bad status">>, <<"no choice">>}
    \cup {<<"choice", n>> : n \in RawVotes}

\* ollama.rs and llm-bot: clamp_choice
clamp_choice(choice, len) == IF len = 0 THEN 0 ELSE Min(choice, len - 1)

\* llm_choose / ollama_choose: Err as the empty list, Ok(choice) as <<choice>>.
llm_choose(reply, options_len) ==
    IF reply[1] = "choice" THEN <<clamp_choice(reply[2], options_len)>> ELSE <<>>

\* llm_deliberate / ollama_deliberate: Err as the empty list, Ok((choice,
\* comment)) as the list of the two; the comment is "(no comment)" when the
\* answer has none.
llm_deliberate(reply, options_len) ==
    IF reply[1] = "choice"
    THEN <<clamp_choice(reply[2], options_len), "(no comment)">>
    ELSE <<>>

\* LlmBot, as main pushes it behind the five members.
LlmBotMember ==
    [name |-> "llm-bot",
     expertise |-> <<[tag |-> "strategy", proficiency |-> 8],
                     [tag |-> "science", proficiency |-> 7],
                     [tag |-> "diplomacy", proficiency |-> 6],
                     [tag |-> "engineering", proficiency |-> 6],
                     [tag |-> "exploration", proficiency |-> 6],
                     [tag |-> "culture", proficiency |-> 4],
                     [tag |-> "military", proficiency |-> 4],
                     [tag |-> "security", proficiency |-> 4]>>]

Members == Council \o <<LlmBotMember>>

\* The members whose struct has the field ollama: Option<OllamaConfig>.
HasOllamaField(name) ==
    name \in {"example-bot", "first-bot", "cycle-bot", "contrarian-bot"}

\* event.relevant_expertise.iter().any(|(t, _)| tags.contains(t))
has_tag(e, tags) ==
    \E i \in 1..Len(e.relevant_expertise) : e.relevant_expertise[i].tag \in tags

\* galaxy.threats.iter().map(|t| t.severity).max().unwrap_or(0)
max_severity(g) ==
    IF g.threats = <<>> THEN 0
    ELSE CHOOSE m \in {g.threats[i].severity : i \in 1..Len(g.threats)} :
            \A i \in 1..Len(g.threats) : g.threats[i].severity <= m

\* ExampleBot::vote after its remote call: the deterministic fallback.
ExampleBotFallback(e, g) ==
    LET pick == IF g.round % 2 = 0 THEN 0 ELSE 1
    IN  Min(pick, saturating_sub(Len(e.options), 1))

\* FirstBot::vote after its remote call.
FirstBotFallback(e, g) ==
    IF g.round <= 10 THEN 0 ELSE saturating_sub(Len(e.options), 1)

\* CycleBot::vote after its remote call.
CycleBotFallback(e, g) ==
    LET num == Len(e.options)
    IN  IF num = 0 THEN 0 ELSE g.round % num

\* ContrarianBot::vote after its remote call: the priority-based strategy.
ContrarianBotFallback(e, g) ==
    LET num == Len(e.options)
        hostiles == Cardinality({k \in DOMAIN g.relations : g.relations[k] = "Hostile"})
        allies == Cardinality({k \in DOMAIN g.relations : g.relations[k] = "Allied"})
        sectors == Len(g.explored_sectors)
    IN  IF num <= 1 THEN 0
        ELSE IF max_severity(g) > 0 /\ has_tag(e, {"military", "strategy"})
        THEN IF max_severity(g) >= 3 THEN 0 ELSE Min(1, num - 1)
        ELSE IF has_tag(e, {"diplomacy", "culture", "linguistics"}) /\ hostiles > allies
        THEN 0
        ELSE IF has_tag(e, {"diplomacy", "culture", "linguistics"}) /\ allies > hostiles
        THEN num - 1
        ELSE IF has_tag(e, {"exploration", "science"}) /\ sectors < 4
        THEN 0
        ELSE IF has_tag(e, {"exploration", "science"}) /\ sectors >= 6
        THEN Min(1, num - 1)
        ELSE num - 1

\* oracle-bot: cautious_option and balanced_option
cautious_option(num) == IF num >= 2 THEN 1 ELSE 0
balanced_option(num) == IF num \in {0, 1} THEN 0 ELSE 1

\* OracleBot::vote: it has no remote call.
OracleBotVote(e, g) ==
    LET num == Len(e.options)
        threat_pressure == SumSeq([i \in 1..Len(g.threats) |-> g.threats[i].severity])
    IN  IF num = 0 THEN 0
        ELSE IF has_tag(e, {"military", "strategy"}) /\ threat_pressure >= 3 THEN 0
        ELSE IF has_tag(e, {"diplomacy", "culture", "linguistics"})
                /\ hostile_count(g) > allied_count(g) THEN 0
        ELSE IF has_tag(e, {"exploration", "science"}) /\ Len(g.explored_sectors) < 4
        THEN 0
        ELSE IF Len(g.discoveries) >= 3 /\ threat_pressure = 0
        THEN cautious_option(num)
        ELSE balanced_option(num)

\* The deterministic part of a member's vote().
Fallback(name, e, g) ==
    CASE name = "example-bot" -> ExampleBotFallback(e, g)
      [] name = "first-bot" -> FirstBotFallback(e, g)
      [] name = "cycle-bot" -> CycleBotFallback(e, g)
      [] name = "contrarian-bot" -> ContrarianBotFallback(e, g)
      [] name = "oracle-bot" -> OracleBotVote(e, g)
      [] OTHER -> 0

\* A call of vote() reaches the service: the member holds a configuration,
\* or it is LlmBot, which always asks.
CallsRemote(name, has_ollama) ==
    (HasOllamaField(name) /\ has_ollama) \/ name = "llm-bot"

\* Mutant: a failed remote call makes the vote 0.
MemberVoteZeroOnFailure(name, has_ollama, reply, e, g) ==
    IF CallsRemote(name, has_ollama)
    THEN LET choice == llm_choose(reply, Len(e.options))
         IN  IF choice # <<>> THEN choice[1] ELSE 0
    ELSE Fallback(name, e, g)

\* GalacticCouncilMember::vote of the member called name; reply is what the
\* service does with the prompt built from e and g, if the member asks.
\* LlmBot: ollama_choose(..).unwrap_or_default().
MemberVote(name, has_ollama, reply, e, g) ==
    IF name = "llm-bot"
    THEN LET choice == llm_choose(reply, Len(e.options))
         IN  IF choice # <<>> THEN choice[1] ELSE 0
    ELSE IF HasOllamaField(name) /\ has_ollama
            /\ llm_choose(reply, Len(e.options)) # <<>>
    THEN llm_choose(reply, Len(e.options))[1]
    ELSE Fallback(name, e, g)

\* The trait's comment() for a member that does not define one.
DefaultComment == <<>>

\* GalacticCouncilMember::comment: None as the empty list.  ExampleBot,
\* CycleBot and ContrarianBot define it: self.ollama.as_ref()?, then
\* llm_deliberate(..).ok()?.
MemberComment(name, has_ollama, reply, e) ==
    IF name \in {"example-bot", "cycle-bot", "contrarian-bot"}
    THEN IF has_ollama /\ llm_deliberate(reply, Len(e.options)) # <<>>
         THEN <<<<"prefers", llm_deliberate(reply, Len(e.options))[1]>>>>
         ELSE <<>>
    ELSE DefaultComment

\* The lines of the deliberation: name and comment of every member whose
\* comment() is Some, in the council's order.
RECURSIVE DeliberationLines(_, _, _, _)
DeliberationLines(council, configured, replies, e) ==
    IF council = <<>> THEN <<>>
    ELSE LET n == Len(council)
             c == MemberComment(council[n].name, configured[n], replies[n], e)
             before == DeliberationLines(SubSeq(council, 1, n - 1),
                                         SubSeq(configured, 1, n - 1),
                                         SubSeq(replies, 1, n - 1), e)
         IN  IF c = <<>> THEN before
             ELSE Append(before, <<council[n].name, c[1]>>)

\* event_for_vote: the event, its description followed by the deliberation
\* when the phase is enabled and gave a line.
EventForVote(e, deliberate, ls) ==
    IF deliberate /\ ls # <<>>
    THEN [e EXCEPT !.description = Append(@, <<"COUNCIL DELIBERATION", ls>>)]
    ELSE e

\* ---- one round of main from the deliberation phase to the last vote
\* The world states of the round: a new galaxy, one with a severe and one
\* with a mild threat, one with a hostile and one with an allied species,
\* one with ten sectors and three discoveries; in round 1, 2 and 11.
CouncilRounds == {1, 2, 11}
CouncilWorlds ==
    {[w EXCEPT !.round = r] :
        w \in {GalaxyNew,
               apply_changes(GalaxyNew, ThreatsSetup(3)),
               apply_changes(GalaxyNew, ThreatsSetup(1)),
               apply_changes(GalaxyNew, SpeciesSetup(<<"Hostile">>)),
               apply_changes(GalaxyNew, SpeciesSetup(<<"Allied">>)),
               apply_changes(GalaxyNew, SectorsSetup(9) \o DiscoveriesSetup(3))},
        r \in CouncilRounds}

\* The generators of the round's event: every template's first branch.
CouncilStreams == {<<d>> \o [i \in 1..(MaxDraws - 1) |-> 0] : d \in SelectDraws}

\* The councils: runs of at most MaxMembers members in main's order, each
\* holding a service configuration or not (LlmBot always, OracleBot never).
Configurations(council) ==
    {c \in [1..Len(council) -> BOOLEAN] :
        \A i \in 1..Len(council) :
            /\ council[i].name = "llm-bot" => c[i]
            /\ council[i].name = "oracle-bot" => ~c[i]}

InitCouncil ==
    /\ council_pc = "deliberate"
    /\ cfg_deliberate \in BOOLEAN
    /\ bots \in {SubSeq(Members, i, j) :
                    i \in 1..Len(Members), j \in 1..Len(Members)}
    /\ Len(bots) \in 1..MaxMembers
    /\ ollama \in Configurations(bots)
    /\ galaxy \in CouncilWorlds
    /\ prev_galaxy = galaxy
    /\ changes = <<>>
    /\ penalty = 0
    /\ op = "new"
    /\ steps = 0
    /\ counts = <<>>
    /\ templates = default_templates
    /\ rng_start \in CouncilStreams
    /\ rng = generate_event(templates, galaxy, rng_start).rng
    /\ event = generate_event(templates, galaxy, rng_start).event
    /\ event_pc = "done"
    /\ ApplicableIdle
    /\ lines = <<>>
    /\ event_for_vote = event
    /\ calls = <<>>
    /\ pc = "idle"
    /\ cfg_rounds = 0
    /\ loop_round = 0
    /\ log = <<>>
    /\ VoteIdle
    /\ WeightIdle
    /\ RelIdle
    /\ ScoreIdle

\* let mut event_for_vote = event.clone();
\* if cfg.deliberate { for bot in &bots { bot.comment(&event, &galaxy) .. } }
Deliberate ==
    /\ council_pc = "deliberate"
    /\ \E replies \in [1..Len(bots) -> Replies] :
          /\ \A i \in 1..Len(bots) :
                (~cfg_deliberate
                 \/ bots[i].name \notin {"example-bot", "cycle-bot", "contrarian-bot"}
                 \/ ~ollama[i])
                => replies[i] = <<"no choice">>
          /\ lines' = IF cfg_deliberate
                      THEN DeliberationLines(bots, ollama, replies, event)
                      ELSE <<>>
    /\ event_for_vote' = EventForVote(event, cfg_deliberate, lines')
    /\ council_pc' = "vote"
    /\ UNCHANGED <<ollama, cfg_deliberate, calls, pc, cfg_rounds, loop_round, bots, log,
                   voteVars, weightVars, galaxyVars, relVars, scoreVars, eventVars>>

\* One pass of for bot in &bots: the weight from the event, the vote on
\* event_for_vote, clamped.  Next to it, the vote the member gives on the
\* event itself: the service answers the same prompt in the same way.
CastVote ==
    /\ council_pc = "vote"
    /\ Len(votes) < Len(bots)
    /\ LET i == Len(votes) + 1
           bot == bots[i]
           w == calculate_vote_weight(bot.expertise, event.relevant_expertise)
       IN  \E reply \in Replies, reply_plain \in Replies :
              /\ ~CallsRemote(bot.name, ollama[i]) => reply = <<"no choice">>
              /\ (~CallsRemote(bot.name, ollama[i])
                  \/ Len(event_for_vote.description) = Len(event.description))
                 => reply_plain = reply
              /\ LET returned == MemberVote(bot.name, ollama[i], reply, event_for_vote,
                                            galaxy)
                     plain == MemberVote(bot.name, ollama[i], reply_plain, event, galaxy)
                 IN  /\ votes' = Append(votes,
                                        [bot_name |-> bot.name,
                                         chosen_option |-> ClampChoice(returned, event),
                                         weight |-> w])
                     /\ calls' = Append(calls,
                                        [remote |-> IF CallsRemote(bot.name, ollama[i])
                                                    THEN reply[1] ELSE "none",
                                         returned |-> returned,
                                         plain |-> ClampChoice(plain, event)])
    /\ UNCHANGED <<num_options, winner, vote_pc, ollama, cfg_deliberate, lines,
                   event_for_vote, council_pc, pc, cfg_rounds, loop_round, bots, log,
                   weightVars, galaxyVars, relVars, scoreVars, eventVars>>

NextCouncil == Deliberate \/ CastVote

SpecCouncil == InitCouncil /\ [][NextCouncil]_vars

(***************************************************************************)
(* Claims about resolve_votes (SpecVote).                                  *)
(***************************************************************************)
\* The accumulated weight of option i: the sum of the weights of the votes
\* that chose i, stated over the vote positions.
AccumulatedWeight(vs, i) ==
    SumSeq([k \in 1..Len(vs) |-> IF vs[k].chosen_option = i THEN vs[k].weight ELSE 0])

InRangeVotes(vs, n) == SelectSeq(vs, LAMBDA v : v.chosen_option < n)

\* C1: with num_options >= 1, resolve_votes returns an index in range whose
\* accumulated weight is maximal, and no lower index has that same total.
C1_MaxWeightLowestIndex ==
    (vote_pc = "done" /\ num_options >= 1) =>
        /\ winner \in 0..(num_options - 1)
        /\ \A i \in 0..(num_options - 1) :
              AccumulatedWeight(votes, i) <= AccumulatedWeight(votes, winner)
        /\ \A i \in 0..(winner - 1) :
              AccumulatedWeight(votes, i) < AccumulatedWeight(votes, winner)

\* C1 witness: a tie for the maximum between two options, built from different
\* votes (0.3 + 0.5 against 0.8), resolved to the lower index.
C1_Witness ==
    /\ vote_pc = "done"
    /\ num_options = 3
    /\ Len(votes) = 3
    /\ AccumulatedWeight(votes, 1) = 800
    /\ AccumulatedWeight(votes, 2) = 800
    /\ votes[1].chosen_option = 2
    /\ votes[1].weight = 300
    /\ winner = 1

\* C2: votes whose chosen_option >= num_options are ignored: the result is
\* that of the vote list without them, it is a valid index, and it is 0 when
\* no vote is in range.
C2_OutOfRangeIgnored ==
    vote_pc = "done" =>
        /\ winner = resolve_votes(InRangeVotes(votes, num_options), num_options)
        /\ winner \in Nat
        /\ (InRangeVotes(votes, num_options) = <<>> => winner = 0)

\* C2 witness: an out-of-range vote heavier than everything else is dropped,
\* and the winner is decided by the votes in range.
C2_Witness ==
    /\ vote_pc = "done"
    /\ num_options = 2
    /\ Len(votes) = 3
    /\ votes[1].chosen_option = 3
    /\ votes[1].weight = 800
    /\ votes[2].chosen_option = 1
    /\ votes[3].chosen_option = 2
    /\ winner = 1

\* C3: with num_options = 0 the result is 0 for every vote list.
C3_ZeroOptions ==
    (vote_pc = "done" /\ num_options = 0) => winner = 0

\* C3 witness: a non-empty vote list resolved against zero options.
C3_Witness ==
    /\ vote_pc = "done"
    /\ num_options = 0
    /\ Len(votes) = 2
    /\ votes[1].chosen_option = 0
    /\ winner = 0

(***************************************************************************)
(* Claims about calculate_vote_weight (SpecWeight).                        *)
(***************************************************************************)
HasTag(expertise, tag) == \E j \in 1..Len(expertise) : expertise[j].tag = tag

\* The bot's proficiency for a tag: that of its first entry with the tag,
\* 0 when it has none.
ProficiencyFor(expertise, tag) ==
    IF HasTag(expertise, tag)
    THEN expertise[CHOOSE j \in 1..Len(expertise) :
                      /\ expertise[j].tag = tag
                      /\ \A k \in 1..(j - 1) : expertise[k].tag # tag].proficiency
    ELSE 0

\* C4: the weight is BASE_WEIGHT plus the sum over the event's entries of
\* event_weight * proficiency for that entry's tag (0 for a tag the bot lacks).
C4_WeightFormula ==
    weight_pc = "done" =>
        vote_weight = BASE_WEIGHT
            + SumSeq([i \in 1..Len(relevant_expertise) |->
                        relevant_expertise[i].weight
                        * ProficiencyFor(bot_expertise, relevant_expertise[i].tag)])

\* C4 witness: (diplomacy 0.8) against (diplomacy 0.5), with a second event
\* tag the bot does not have: BASE_WEIGHT + 0.4.
C4_Witness ==
    /\ weight_pc = "done"
    /\ bot_expertise = <<[tag |-> "diplomacy", proficiency |-> 8]>>
    /\ relevant_expertise = <<[tag |-> "diplomacy", weight |-> 50],
                              [tag |-> "science", weight |-> 30]>>
    /\ vote_weight = BASE_WEIGHT + 400

\* C5: no common tag gives exactly BASE_WEIGHT, and with non-negative event
\* weights and proficiencies every weight is at least BASE_WEIGHT, which is
\* positive.
C5_BaseWeightFloor ==
    weight_pc = "done" =>
        /\ ((\A i \in 1..Len(relevant_expertise) :
                ~HasTag(bot_expertise, relevant_expertise[i].tag))
            => vote_weight = BASE_WEIGHT)
        /\ ((/\ \A i \in 1..Len(relevant_expertise) : relevant_expertise[i].weight >= 0
             /\ \A j \in 1..Len(bot_expertise) : bot_expertise[j].proficiency >= 0)
            => vote_weight >= BASE_WEIGHT)
        /\ BASE_WEIGHT > 0

\* C5 witness: an engineering bot on a diplomacy event.
C5_Witness ==
    /\ weight_pc = "done"
    /\ bot_expertise = <<[tag |-> "engineering", proficiency |-> 8]>>
    /\ relevant_expertise = <<[tag |-> "diplomacy", weight |-> 50]>>
    /\ vote_weight = BASE_WEIGHT

(***************************************************************************)
(* Claims about GalaxyState (Spec).                                        *)
(***************************************************************************)
Names(list) == {list[i].name : i \in 1..Len(list)}

NoDuplicateNames(list) ==
    \A i, j \in 1..Len(list) : list[i].name = list[j].name => i = j

\* The list without its i-th entry.
WithoutIndex(list, i) == SubSeq(list, 1, i - 1) \o SubSeq(list, i + 1, Len(list))

\* C6: no two explored sectors share a name; an AddSector of a name already
\* present leaves the sector list as it was; the same AddSector twice adds
\* one entry, the first.
C6_SectorNamesUnique ==
    /\ NoDuplicateNames(galaxy.explored_sectors)
    /\ (/\ op = "apply_changes"
        /\ Len(changes) = 1
        /\ changes[1].type = "AddSector"
        /\ changes[1].sector.name \in Names(prev_galaxy.explored_sectors))
       => galaxy.explored_sectors = prev_galaxy.explored_sectors
    /\ (/\ op = "apply_changes"
        /\ Len(changes) = 2
        /\ changes[1].type = "AddSector"
        /\ changes[2].type = "AddSector"
        /\ changes[1].sector.name = changes[2].sector.name
        /\ changes[1].sector.name \notin Names(prev_galaxy.explored_sectors))
       => galaxy.explored_sectors
              = Append(prev_galaxy.explored_sectors, changes[1].sector)

\* C6 witness: one call adds "Alpha Quadrant" twice, as a nebula and as a
\* void; the list holds the home sector and the nebula.
C6_Witness ==
    /\ op = "apply_changes"
    /\ Len(changes) = 2
    /\ changes[1] = [type |-> "AddSector",
                     sector |-> [name |-> "Alpha Quadrant", sector_type |-> "Nebula"]]
    /\ changes[2] = [type |-> "AddSector",
                     sector |-> [name |-> "Alpha Quadrant", sector_type |-> "Void"]]
    /\ Len(prev_galaxy.explored_sectors) = 1
    /\ Len(galaxy.explored_sectors) = 2
    /\ galaxy.explored_sectors[2].sector_type = "Nebula"

\* C7: AddSpecies of a species already known changes nothing; its relation
\* is kept, also one set just before in the same list.
C7_AddKnownSpeciesNoOp ==
    op = "apply_changes" =>
        /\ (/\ Len(changes) = 1
            /\ changes[1].type = "AddSpecies"
            /\ changes[1].species.name \in Names(prev_galaxy.known_species))
           => galaxy = prev_galaxy
        /\ (/\ Len(changes) = 2
            /\ changes[1].type = "SetRelation"
            /\ changes[2].type = "AddSpecies"
            /\ changes[2].species.name = changes[1].species
            /\ changes[1].species \in Names(prev_galaxy.known_species))
           => /\ galaxy.known_species = prev_galaxy.known_species
              /\ galaxy.relations[changes[1].species] = changes[1].relation

\* C7 witness: Zorblax is known and Allied, and is added again with other
\* traits; it is still Allied and listed once, with its first traits.
C7_Witness ==
    /\ op = "apply_changes"
    /\ changes = <<[type |-> "AddSpecies",
                    species |-> [name |-> "Zorblax", traits |-> <<>>]]>>
    /\ prev_galaxy.known_species = <<[name |-> "Zorblax", traits |-> <<"curious">>]>>
    /\ prev_galaxy.relations["Zorblax"] = "Allied"
    /\ galaxy.known_species = prev_galaxy.known_species
    /\ galaxy.relations["Zorblax"] = "Allied"

\* C8: every known species has a relation entry, and a species that the last
\* change of a call adds for the first time has relation Unknown after it.
C8_KnownSpeciesHaveRelation ==
    /\ \A i \in 1..Len(galaxy.known_species) :
          galaxy.known_species[i].name \in DOMAIN galaxy.relations
    /\ (/\ op = "apply_changes"
        /\ changes # <<>>
        /\ changes[Len(changes)].type = "AddSpecies"
        /\ changes[Len(changes)].species.name \notin Names(prev_galaxy.known_species)
        /\ \A i \in 1..(Len(changes) - 1) :
              changes[i].type = "AddSpecies"
                  => changes[i].species.name # changes[Len(changes)].species.name)
       => galaxy.relations[changes[Len(changes)].species.name] = "Unknown"

\* C8 witness: a relation is set for Krell before Krell is known; adding
\* Krell then sets it to Unknown.
C8_Witness ==
    /\ op = "apply_changes"
    /\ changes = <<[type |-> "SetRelation", species |-> "Krell", relation |-> "Allied"],
                   [type |-> "AddSpecies",
                    species |-> [name |-> "Krell", traits |-> <<"curious">>]]>>
    /\ prev_galaxy.known_species = <<>>
    /\ Names(galaxy.known_species) = {"Krell"}
    /\ galaxy.relations["Krell"] = "Unknown"

\* C9: every threat in the active list has severity > 0.
C9_ThreatSeverityPositive ==
    \A i \in 1..Len(galaxy.threats) : galaxy.threats[i].severity > 0

\* C10: ModifyThreatSeverity{name, delta} on an active threat sets its
\* severity to severity + delta when that is positive and removes it
\* otherwise; the other threats and the rest of the state are unchanged, and
\* nothing changes when no threat has that name.
C10_ModifyThreatSeverity ==
    (/\ op = "apply_changes"
     /\ Len(changes) = 1
     /\ changes[1].type = "ModifyThreatSeverity")
    => LET name == changes[1].name
           delta == changes[1].delta
           old == prev_galaxy.threats
       IN  /\ [galaxy EXCEPT !.threats = old] = prev_galaxy
           /\ IF name \notin Names(old)
              THEN galaxy.threats = old
              ELSE LET i == CHOOSE j \in 1..Len(old) : old[j].name = name
                   IN  IF old[i].severity + delta > 0
                       THEN galaxy.threats =
                                [old EXCEPT ![i] =
                                    [name |-> name,
                                     severity |-> old[i].severity + delta,
                                     rounds_active |-> old[i].rounds_active]]
                       ELSE galaxy.threats = WithoutIndex(old, i)

\* C10 witness: of two active threats the first, of severity 1, gets delta -2
\* and is removed; the second stays.
C10_Witness ==
    /\ op = "apply_changes"
    /\ changes = <<[type |-> "ModifyThreatSeverity",
                    name |-> "Space Pirates", delta |-> -2]>>
    /\ Len(prev_galaxy.threats) = 2
    /\ prev_galaxy.threats[1].name = "Space Pirates"
    /\ prev_galaxy.threats[1].severity = 1
    /\ galaxy.threats = <<prev_galaxy.threats[2]>>

\* C11: AddThreat of a name that is already active changes nothing (the
\* active threat keeps its severity and rounds_active), and the names of
\* the active threats are pairwise distinct.
C11_ThreatNamesUnique ==
    /\ NoDuplicateNames(galaxy.threats)
    /\ (/\ op = "apply_changes"
        /\ Len(changes) = 1
        /\ changes[1].type = "AddThreat"
        /\ changes[1].threat.name \in Names(prev_galaxy.threats))
       => galaxy = prev_galaxy

\* C11 witness: Space Pirates is active with severity 1 and has been
\* processed once; an AddThreat of the same name with severity 2 leaves it so.
C11_Witness ==
    /\ op = "apply_changes"
    /\ changes = <<[type |-> "AddThreat",
                    threat |-> [name |-> "Space Pirates", severity |-> 2,
                                rounds_active |-> 0]]>>
    /\ prev_galaxy.threats = <<[name |-> "Space Pirates", severity |-> 1,
                                rounds_active |-> 1]>>
    /\ galaxy.threats = prev_galaxy.threats

\* C12: process_threats adds 1 to rounds_active of every active threat,
\* returns -3 times the sum of the active severities (0 without threats),
\* keeps every threat with its name and severity, in the same order, and
\* leaves the rest of the state as it was.
C12_ProcessThreats ==
    op = "process_threats" =>
        LET old == prev_galaxy.threats
        IN  /\ [galaxy EXCEPT !.threats = old] = prev_galaxy
            /\ Len(galaxy.threats) = Len(old)
            /\ \A i \in 1..Len(old) :
                  /\ galaxy.threats[i].name = old[i].name
                  /\ galaxy.threats[i].severity = old[i].severity
                  /\ galaxy.threats[i].rounds_active = old[i].rounds_active + 1
            /\ penalty = 0 - 3 * SumSeq([i \in 1..Len(old) |-> old[i].severity])
            /\ old = <<>> => penalty = 0

\* C12 witness: two threats of severity 2 and 1 are processed; the penalty
\* is -9 and both have been active for one round.
C12_Witness ==
    /\ op = "process_threats"
    /\ Len(prev_galaxy.threats) = 2
    /\ prev_galaxy.threats[1].severity = 2
    /\ prev_galaxy.threats[2].severity = 1
    /\ penalty = -9
    /\ galaxy.threats[1].rounds_active = 1
    /\ galaxy.threats[2].rounds_active = 1

\* The known species with a relation level.
KnownAt(g, level) ==
    {i \in 1..Len(g.known_species) :
        /\ g.known_species[i].name \in DOMAIN g.relations
        /\ g.relations[g.known_species[i].name] = level}

\* C29: allied_count returns the number of known species whose relation is
\* Allied and hostile_count the number of those whose relation is Hostile.
C29_CountsOfKnownSpecies ==
    op = "counts" =>
        /\ counts[1] = Cardinality(KnownAt(galaxy, "Allied"))
        /\ counts[2] = Cardinality(KnownAt(galaxy, "Hostile"))

\* C30: apply_changes applies the changes in list order: for every split of
\* the list into xs and ys, applying the list gives the state that applying
\* xs and then ys gives, a list of one change gives what that change's arm
\* gives, and AddSpecies(s) followed by SetRelation(s, L), for a species s
\* that was not known, leaves s known with relation L.
C30_AppliesInListOrder ==
    op = "apply_changes" =>
        /\ \A i \in 0..Len(changes) :
              galaxy = apply_changes(apply_changes(prev_galaxy, SubSeq(changes, 1, i)),
                                     SubSeq(changes, i + 1, Len(changes)))
        /\ Len(changes) = 1 => galaxy = ApplyChange(prev_galaxy, changes[1])
        /\ (/\ Len(changes) = 2
            /\ changes[1].type = "AddSpecies"
            /\ changes[2].type = "SetRelation"
            /\ changes[2].species = changes[1].species.name
            /\ ~AnyNamed(prev_galaxy.known_species, changes[1].species.name))
           => /\ AnyNamed(galaxy.known_species, changes[1].species.name)
              /\ galaxy.relations[changes[1].species.name] = changes[2].relation

\* C30 witness: one call adds the species Krell and sets its relation to
\* Friendly.
C30_Witness ==
    /\ op = "apply_changes"
    /\ prev_galaxy = GalaxyNew
    /\ Len(changes) = 2
    /\ changes[1] = [type |-> "AddSpecies",
                     species |-> [name |-> "Krell", traits |-> <<"curious">>]]
    /\ changes[2] = [type |-> "SetRelation", species |-> "Krell", relation |-> "Friendly"]
    /\ galaxy.relations["Krell"] = "Friendly"

(***************************************************************************)
(* Claims about the relation steps (SpecRelation).                         *)
(***************************************************************************)
\* The table of the one-step improvement.
ImproveTable ==
    [r \in Relation |->
        CASE r = "Hostile" -> "Wary"
          [] r = "Unknown" -> "Neutral"
          [] r = "Wary" -> "Neutral"
          [] r = "Neutral" -> "Friendly"
          [] r = "Friendly" -> "Allied"
          [] r = "Allied" -> "Allied"]

\* The table of the one-step degradation.
DegradeTable ==
    [r \in Relation |->
        CASE r = "Allied" -> "Friendly"
          [] r = "Friendly" -> "Neutral"
          [] r = "Neutral" -> "Wary"
          [] r = "Wary" -> "Hostile"
          [] r = "Unknown" -> "Hostile"
          [] r = "Hostile" -> "Hostile"]

C20_TotalIsSumAppendOnly ==
    /\ score.total = SumSeq([i \in 1..Len(score.history) |-> score.history[i].delta])
    /\ score_args # <<>> =>
          /\ Len(score.history) = Len(prev_score.history) + 1
          /\ \A i \in 1..Len(prev_score.history) :
                score.history[i] = prev_score.history[i]
          /\ score.history[Len(score.history)] = score_args[1]

\* C20 witness: three entries, a gain and two losses, with total 2.
C20_Witness ==
    /\ Len(score.history) = 3
    /\ score.history[1] = [round |-> 1, delta |-> 20, reason |-> "Business as usual."]
    /\ score.history[2].delta = -3
    /\ score.history[3].delta = -15
    /\ score.total = 2

\* The entries of the ledger with the largest and with the smallest delta.
MaxDeltaEntries(history) ==
    {i \in 1..Len(history) : \A j \in 1..Len(history) : history[j].delta <= history[i].delta}

MinDeltaEntries(history) ==
    {i \in 1..Len(history) : \A j \in 1..Len(history) : history[j].delta >= history[i].delta}

\* C21: best_moment returns None on an empty ledger and otherwise the first
\* entry, in ledger order, among those with the maximum delta.
C21_BestMomentFirstOfMaxima ==
    score_query = "best_moment" =>
        IF score.history = <<>> THEN score_result = <<>>
        ELSE /\ Len(score_result) = 1
             /\ score_result[1] \in MaxDeltaEntries(score.history)
             /\ \A j \in MaxDeltaEntries(score.history) : score_result[1] <= j

\* C22: worst_moment returns None on an empty ledger and otherwise the first
\* entry, in ledger order, among those with the minimum delta.
C22_WorstMomentFirstOfMinima ==
    score_query = "worst_moment" =>
        IF score.history = <<>> THEN score_result = <<>>
        ELSE /\ Len(score_result) = 1
             /\ score_result[1] \in MinDeltaEntries(score.history)
             /\ \A j \in MinDeltaEntries(score.history) : score_result[1] <= j

\* C22 witness: the minimum delta -15 is in the first and the third entry,
\* and the first is returned.
C22_Witness ==
    /\ score_query = "worst_moment"
    /\ Len(score.history) = 3
    /\ score.history[1].delta = -15
    /\ score.history[2].delta = 20
    /\ score.history[3].delta = -15
    /\ score_result = <<1>>

\* The tiers from the lowest to the highest.
TierRank(tier) ==
    CASE tier = "Dysfunctional" -> 0
      [] tier = "Struggling" -> 1
      [] tier = "Competent" -> 2
      [] tier = "Distinguished" -> 3
      [] tier = "Legendary Council" -> 4

\* The tier the thresholds 50, 100, 150 and 200 give a total.
TierOfTotal(t) ==
    IF t >= 200 THEN "Legendary Council"
    ELSE IF t >= 150 THEN "Distinguished"
    ELSE IF t >= 100 THEN "Competent"
    ELSE IF t >= 50 THEN "Struggling"
    ELSE "Dysfunctional"

\* C23: rating() returns a tier for every total, the one the thresholds 200,
\* 150, 100 and 50 give (every total below 50, negative ones among them, is
\* Dysfunctional), and no smaller total has a higher tier.
C23_RatingTiers ==
    score_query = "rating" =>
        /\ score_result = <<TierOfTotal(score.total)>>
        /\ \A t \in (0 - MaxTotal)..score.total :
              TierRank(rating([total |-> t, history |-> <<>>])) <= TierRank(score_result[1])

\* C23 witness: a total of exactly 200 is rated Legendary Council.
C23_Witness ==
    /\ score_query = "rating"
    /\ score.total = 200
    /\ score_result = <<"Legendary Council">>

(***************************************************************************)
(* Claims about generate_event (SpecEvent).                                *)
(***************************************************************************)
\* C14: with the default catalog generate_event returns, in every world
\* state and for every generator, and the event has at least one option.
C14_DefaultCatalogNeverFails ==
    (templates = default_templates /\ event_pc # "call") =>
        /\ event_pc = "done"
        /\ Len(event.options) >= 1

\* C14 witness: the default catalog on a world without sectors and species,
\* where the templates that index those lists must not be chosen.
C14_Witness ==
    /\ templates = default_templates
    /\ event_pc = "done"
    /\ galaxy.explored_sectors = <<>>
    /\ galaxy.known_species = <<>>
    /\ Len(galaxy.threats) = 3
    /\ rng_start[1] = 10
    /\ Len(event.options) = 3

\* C15: when no template of the catalog is applicable (an empty catalog
\* among them) the call returns the fixed fallback event, with one option of
\* score delta +1 and no state change, and the generator is untouched.
C15_NoneApplicableFallback ==
    (/\ event_pc # "call"
     /\ \A i \in 1..Len(templates) : ~is_applicable(templates[i], galaxy))
    => /\ event_pc = "done"
       /\ event.description = <<"A quiet period in the cosmos">>
       /\ Len(event.options) = 1
       /\ event.options[1].outcome.score_delta = 1
       /\ event.options[1].outcome.state_changes = <<>>
       /\ rng = rng_start

\* C15 witness: a catalog of four templates, none applicable in a new galaxy.
C15_Witness ==
    /\ Len(templates) = 4
    /\ galaxy = GalaxyNew
    /\ event_pc = "done"
    /\ Len(event.options) = 1
    /\ event.options[1].outcome.score_delta = 1
    /\ rng = rng_start

\* The sum of the weights of the first i templates of a list.
CumulativeWeight(list, i) == SumSeq([j \in 1..i |-> weight(list[j])])

\* The template an event comes from, read off the event's text.
TemplateOf(e) ==
    CASE e.description[1] = "Long-range sensors detect an unusual signal" -> "Unknown Signal"
      [] e.description[1] = "Scanners pick up a derelict vessel" -> "Derelict Vessel"
      [] e.description[1] = "A spatial anomaly has been detected nearby" -> "Spatial Anomaly"
      [] e.description[1] = "Our explorers have encountered a previously unknown species"
            -> "First Contact"
      [] e.description[1] = "Alert! A threat has been detected approaching our territory"
            -> "Threat Emergence"
      [] e.description[1] = "A critical shortage is developing" -> "Resource Scarcity"
      [] e.description[1] = "Survey teams have discovered an ancient artifact"
            -> "Artifact Discovery"
      [] e.description[1] = "An envoy requests a formal diplomatic summit"
            -> "Diplomatic Request"
      [] e.description[1] = "An invitation to a structured cultural exchange"
            -> "Cultural Exchange"
      [] e.description[1] = "A path to a major breakthrough" -> "Tech Breakthrough"
      [] OTHER -> "none"

\* C16: when a template is applicable the call takes one draw d, reduces it
\* modulo the total weight of the applicable templates and generates with
\* the first applicable template, in catalog order, whose cumulative weight
\* exceeds the result; the event comes from an applicable template, and the
\* selection loop never runs to its end.
C16_WeightedSelection ==
    (/\ event_pc # "call"
     /\ \E i \in 1..Len(templates) : is_applicable(templates[i], galaxy))
    => LET applicable == Applicable(templates, galaxy)
           r == rng_start[1] % CumulativeWeight(applicable, Len(applicable))
           first == CHOOSE i \in 1..Len(applicable) :
                        /\ CumulativeWeight(applicable, i) > r
                        /\ \A j \in 1..(i - 1) : CumulativeWeight(applicable, j) <= r
           out == generate(applicable[first], galaxy, Tail(rng_start))
       IN  /\ event_pc = "done"
           /\ \A i \in 1..Len(applicable) : is_applicable(applicable[i], galaxy)
           /\ event = out.event
           /\ rng = out.rng
           /\ Len(rng) < Len(rng_start)
           /\ TemplateOf(event) = applicable[first]
           /\ is_applicable(TemplateOf(event), galaxy)
           /\ Scan(applicable, 1, r) <= Len(applicable)

\* C16 witness: ten sectors are explored, so the catalog's first template is
\* not applicable; the draw 16 is reduced to 16 and falls on the boundary
\* between the second applicable template (Spatial Anomaly, cumulative
\* weight 14) and the third (First Contact).
C16_Witness ==
    /\ templates = default_templates
    /\ event_pc = "done"
    /\ Len(galaxy.explored_sectors) = 10
    /\ Len(galaxy.known_species) = 0
    /\ rng_start[1] = 16
    /\ TemplateOf(event) = "First Contact"
    /\ Len(rng) = Len(rng_start) - 4

\* C33: with the default catalog Spatial Anomaly and Resource Scarcity are
\* applicable in every world state, the total weight of the applicable
\* templates is at least 13, and the event returned is not the fallback
\* event: it has exactly 3 options.
C33_DefaultCatalogNoFallback ==
    templates = default_templates =>
        /\ is_applicable("Spatial Anomaly", galaxy)
        /\ is_applicable("Resource Scarcity", galaxy)
        /\ weight("Spatial Anomaly") + weight("Resource Scarcity") = 13
        /\ TotalWeight(Applicable(templates, galaxy)) >= 13
        /\ event_pc = "done" =>
              /\ event.description # <<"A quiet period in the cosmos">>
              /\ TemplateOf(event) \in {templates[i] : i \in 1..Len(templates)}
              /\ Len(event.options) = 3

\* C33 witness: a world without sectors and discoveries, with five hostile
\* species and three threats, where four templates are applicable, and the
\* event comes from one of the two that always are.
C33_Witness ==
    /\ templates = default_templates
    /\ event_pc = "done"
    /\ galaxy.explored_sectors = <<>>
    /\ Len(galaxy.known_species) = 5
    /\ Len(galaxy.threats) = 3
    /\ Len(Applicable(templates, galaxy)) = 4
    /\ TemplateOf(event) = "Resource Scarcity"
    /\ Len(event.options) = 3

\* The state changes of all options of an event.
ChangesOf(e) ==
    UNION {{e.options[i].outcome.state_changes[j] :
                j \in 1..Len(e.options[i].outcome.state_changes)} :
            i \in 1..Len(e.options)}

\* C40: a Cultural Exchange event returned by generate_event names a known
\* species whose relation, when the event is generated, is not Hostile, and
\* every SetRelation of its options (each option has one) names that species.
C40_CulturalExchangeTarget ==
    (event_pc = "done" /\ TemplateOf(event) = "Cultural Exchange") =>
        LET species_name == event.description[2]
        IN  /\ AnyNamed(galaxy.known_species, species_name)
            /\ RelationOf(galaxy, species_name) # "Hostile"
            /\ event.description[3] = RelationOf(galaxy, species_name)
            /\ \A c \in ChangesOf(event) :
                  c.type = "SetRelation" => c.species = species_name
            /\ \A i \in 1..Len(event.options) :
                  \E j \in 1..Len(event.options[i].outcome.state_changes) :
                      event.options[i].outcome.state_changes[j].type = "SetRelation"

\* C40 witness: the first known species is hostile, the second is not, and
\* the draw that would index the first one in the list of known species
\* gives the second.
C40_Witness ==
    /\ event_pc = "done"
    /\ TemplateOf(event) = "Cultural Exchange"
    /\ Len(galaxy.known_species) = 2
    /\ RelationOf(galaxy, galaxy.known_species[1].name) = "Hostile"
    /\ rng_start[2] = 0
    /\ event.description[2] = galaxy.known_species[2].name

(***************************************************************************)
(* Claims about is_applicable (SpecApplicable).                            *)
(***************************************************************************)
\* The known species of a world state whose relation is not Hostile; a
\* species without a relation counts as Unknown.
NotHostileKnown(g) ==
    {i \in 1..Len(g.known_species) :
        \/ g.known_species[i].name \notin DOMAIN g.relations
        \/ g.relations[g.known_species[i].name] # "Hostile"}

\* C31: is_applicable answers by these thresholds, and leaves the world
\* state as it is: Unknown Signal iff fewer than 10 sectors, First Contact
\* iff fewer than 5 known species, Threat Emergence iff fewer than 3 threats,
\* Artifact Discovery iff more than 1 sector, Diplomatic Request iff a
\* species is known, Cultural Exchange iff a known species is not Hostile,
\* Tech Breakthrough iff at least 3 discoveries, Spatial Anomaly and
\* Resource Scarcity always.
C31_ApplicableThresholds ==
    asked # "none" =>
        /\ galaxy = prev_galaxy
        /\ asked = "Unknown Signal" => answer = <<Len(galaxy.explored_sectors) < 10>>
        /\ asked = "First Contact" => answer = <<Len(galaxy.known_species) < 5>>
        /\ asked = "Threat Emergence" => answer = <<Len(galaxy.threats) < 3>>
        /\ asked = "Artifact Discovery" => answer = <<Len(galaxy.explored_sectors) > 1>>
        /\ asked = "Diplomatic Request" => answer = <<Len(galaxy.known_species) >= 1>>
        /\ asked = "Cultural Exchange" => answer = <<NotHostileKnown(galaxy) # {}>>
        /\ asked = "Tech Breakthrough" => answer = <<Len(galaxy.discoveries) >= 3>>
        /\ asked \in {"Spatial Anomaly", "Resource Scarcity"} => answer = <<TRUE>>

\* C31 witness: Unknown Signal is refused at 10 sectors.
C31_Witness ==
    /\ asked = "Unknown Signal"
    /\ Len(galaxy.explored_sectors) = 10
    /\ answer = <<FALSE>>

(***************************************************************************)
(* Claims about the round loop (SpecDriver).                               *)
(***************************************************************************)
\* The log is in the order of the loop body when, of the two steps between
\* resolving the votes and processing the threats, `first` comes first: the
\* run starts with round 1; set_round is followed by generate, generate by
\* one vote per member in council order, the last vote by resolve, resolve
\* by first, first by second, second by process_threats, process_threats by
\* record_penalty exactly when the penalty is not 0, and the next round's
\* set_round follows the round's last step.
StepsInOrder(first, second) ==
    /\ log # <<>> => (log[1].step = "set_round" /\ log[1].round = 1)
    /\ \A i \in 1..(Len(log) - 1) :
          LET a == log[i]
              b == log[i + 1]
              same == b.round = a.round
          IN  CASE a.step = "set_round" -> same /\ b.step = "generate" /\ a.arg = a.round
                [] a.step = "generate" ->
                      /\ same
                      /\ IF bots = <<>> THEN b.step = "resolve"
                         ELSE b.step = "vote" /\ b.arg = 1
                [] a.step = "vote" ->
                      /\ same
                      /\ IF a.arg < Len(bots) THEN b.step = "vote" /\ b.arg = a.arg + 1
                         ELSE b.step = "resolve"
                [] a.step = "resolve" -> same /\ b.step = first
                [] a.step = first -> same /\ b.step = second
                [] a.step = second -> same /\ b.step = "process_threats"
                [] a.step = "process_threats" ->
                      IF a.arg # 0
                      THEN same /\ b.step = "record_penalty" /\ b.arg = a.arg
                      ELSE b.step = "set_round" /\ b.round = a.round + 1
                [] a.step = "record_penalty" ->
                      b.step = "set_round" /\ b.round = a.round + 1
                [] OTHER -> FALSE

\* C19 as stated: in every round the steps are set round, generate, one vote
\* per member, resolve, apply the outcome's state changes, record the
\* outcome's score delta, process threats, record the penalty only if
\* nonzero; a round finishes before the next starts.
C19_ApplyBeforeRecord == StepsInOrder("apply_outcome", "record_outcome")

\* C19 amended: as stated, except that the outcome's score delta is recorded
\* before the outcome's state changes are applied.
C19_RecordBeforeApply == StepsInOrder("record_outcome", "apply_outcome")

\* C19 witness: a finished run of two rounds, the first without a threat
\* penalty and the second with one.
C19_Witness ==
    /\ pc = "done"
    /\ loop_round = 2
    /\ \E i \in 1..Len(log) :
          log[i].round = 1 /\ log[i].step = "process_threats" /\ log[i].arg = 0
    /\ \E i \in 1..Len(log) :
          log[i].round = 2 /\ log[i].step = "record_penalty" /\ log[i].arg < 0

\* The steps after which the round's votes are all collected and resolved.
AfterResolve ==
    /\ loop_round >= 1
    /\ pc \in {"record_outcome", "apply_outcome", "process_threats", "threat_penalty",
               "loop", "done"}

\* C24: the vote list handed to resolve_votes holds one vote per member, in
\* council order, every collected vote's chosen_option is an index of an
\* option of the round's event, and the winner is an index of an option of
\* the round's event (the indexing event.options[winner] never fails).
C24_VotesClampedWinnerValid ==
    /\ pc # "panicked"
    /\ \A i \in 1..Len(votes) : votes[i].chosen_option < Len(event.options)
    /\ AfterResolve =>
          /\ Len(votes) = Len(bots)
          /\ \A i \in 1..Len(bots) : votes[i].bot_name = bots[i].name
          /\ num_options = Len(event.options)
          /\ winner < Len(event.options)

\* C24 witness: an event with three options on which the first member
\* returned an index past the options, clamped to the last option, 2, which
\* wins against the second member's vote for option 0.
C24_Witness ==
    /\ pc = "record_outcome"
    /\ Len(bots) = 2
    /\ Len(event.options) = 3
    /\ votes[1].chosen_option = 2
    /\ votes[2].chosen_option = 0
    /\ winner = 2

\* The entries of the log that record a score.
IsRecordStep(entry) == entry.step \in {"record_outcome", "record_penalty"}

\* The entries of the ledger of round q with and without the reason of a
\* threat penalty.
PenaltyEntries(q) ==
    {i \in 1..Len(score.history) :
        score.history[i].round = q /\ score.history[i].reason = "Unresolved threats"}

OutcomeEntries(q) ==
    {i \in 1..Len(score.history) :
        score.history[i].round = q /\ score.history[i].reason # "Unresolved threats"}

\* C25: after r completed rounds the ledger holds between r and 2r entries:
\* for every round one outcome entry and, exactly when a threat was active
\* as the round's threats were processed, one 'Unresolved threats' entry
\* after it; every entry carries the round, and the delta, of the step that
\* recorded it.
C25_LedgerEntriesPerRound ==
    pc \in {"loop", "done"} =>
        LET recorded == SelectSeq(log, IsRecordStep)
        IN  /\ Len(score.history) >= loop_round
            /\ Len(score.history) <= 2 * loop_round
            /\ Len(recorded) = Len(score.history)
            /\ \A i \in 1..Len(recorded) :
                  /\ score.history[i].round = recorded[i].round
                  /\ score.history[i].delta = recorded[i].arg
                  /\ (score.history[i].reason = "Unresolved threats")
                        <=> (recorded[i].step = "record_penalty")
            /\ \A i \in 1..Len(score.history) : score.history[i].round \in 1..loop_round
            /\ \A q \in 1..loop_round :
                  /\ Cardinality(OutcomeEntries(q)) = 1
                  /\ \A i \in PenaltyEntries(q) : \A j \in OutcomeEntries(q) : j < i
                  /\ \E i \in 1..Len(log) :
                        /\ log[i].round = q
                        /\ log[i].step = "process_threats"
                        /\ Cardinality(PenaltyEntries(q))
                              = IF log[i].threats > 0 THEN 1 ELSE 0

\* C25 witness: two completed rounds and three entries, the second round's
\* outcome having added the threat that the third entry penalises.
C25_Witness ==
    /\ pc = "loop"
    /\ loop_round = 2
    /\ Len(score.history) = 3
    /\ score.history[1].round = 1
    /\ score.history[2].round = 2
    /\ score.history[3] = [round |-> 2, delta |-> -6, reason |-> "Unresolved threats"]

\* The rounds of the log entries of one step, in log order.
RoundsOf(step) ==
    LET IsStep(entry) == entry.step = step
        entries == SelectSeq(log, IsStep)
    IN  [i \in 1..Len(entries) |-> entries[i].round]

\* A finished run has completed exactly cfg.rounds rounds: world.round was
\* set to 1, 2, .., cfg.rounds in this order, and every round resolved one
\* winner.
CompletedAllRounds ==
    /\ pc = "done"
    /\ loop_round = cfg_rounds
    /\ galaxy.round = cfg_rounds
    /\ RoundsOf("set_round") = [i \in 1..cfg_rounds |-> i]
    /\ \A i \in 1..Len(log) : log[i].step = "set_round" => log[i].arg = log[i].round
    /\ RoundsOf("resolve") = [i \in 1..cfg_rounds |-> i]

\* The number of steps a run has left: the rest of the round's body, the
\* bodies of the rounds to come, and the end of the loop.
StepsLeft ==
    LET body == Len(bots) + 7
        rest == CASE pc = "generate" -> Len(bots) + 6
                  [] pc = "vote" -> (Len(bots) - Len(votes)) + 5
                  [] pc = "record_outcome" -> 4
                  [] pc = "apply_outcome" -> 3
                  [] pc = "process_threats" -> 2
                  [] pc = "threat_penalty" -> 1
                  [] OTHER -> 0
    IN  IF pc \in {"done", "panicked"} THEN 0
        ELSE (cfg_rounds - loop_round) * body + rest + 1

\* C26: the loop terminates when the members' vote calls return: a run that
\* is not finished always has a next step (the generate step is enabled
\* whenever the generator has values to return, which is evaluated on the
\* first round's states), every step leaves fewer steps to take, and a
\* finished run has completed exactly cfg.rounds rounds, with world.round
\* taking the values 1, 2, .., cfg.rounds in increasing order and one winner
\* per round.
C26_LoopTerminates ==
    /\ [](StepsLeft >= 0)
    /\ [](pc \notin {"done", "generate"} => ENABLED NextDriver)
    /\ [](pc = "generate" => Streams # {})
    /\ []((pc = "generate" /\ loop_round = 1) => ENABLED DriverGenerateEvent)
    /\ [][StepsLeft' < StepsLeft]_vars
    /\ [](pc = "done" => CompletedAllRounds)

\* C26 witness: a finished run of two rounds with two members.
C26_Witness ==
    /\ CompletedAllRounds
    /\ cfg_rounds = 2
    /\ Len(bots) = 2
    /\ Len(log) >= 16

(***************************************************************************)
(* Claims about the deliberation phase and the members (SpecCouncil).     *)
(***************************************************************************)
RemoteFailures == {"connection error", "bad status", "no choice"}

\* C27: enabling the deliberation phase has no effect on the votes: every
\* vote pushed for the round (cast on event_for_vote) is the vote the same
\* member gives on the event without the deliberation.
C27_DeliberationLeavesVotes ==
    \A i \in 1..Len(calls) : votes[i].chosen_option = calls[i].plain

\* C28: when a member holding a service configuration asks the service and
\* the call fails (connection error, bad status, answer without a choice),
\* vote() returns what the same member returns with no service configured,
\* and that is an index into the event's options; LlmBot, which has no
\* unconfigured form, returns 0.
C28_FailedCallFallsBack ==
    \A i \in 1..Len(calls) :
        calls[i].remote \in RemoteFailures
        => /\ calls[i].returned
                = MemberVote(bots[i].name, FALSE, <<"no choice">>, event_for_vote, galaxy)
           /\ calls[i].returned \in 0..(Len(event.options) - 1)
           /\ bots[i].name = "llm-bot" => calls[i].returned = 0

\* A configured member's call failed and its fallback is not option 0.
C28_Witness ==
    \E i \in 1..Len(calls) :
        /\ calls[i].remote \in RemoteFailures
        /\ HasOllamaField(bots[i].name)
        /\ ollama[i]
        /\ calls[i].returned # 0

\* The sum of the severities of a list of threats.
SumSeverity(threats) == SumSeq([i \in 1..Len(threats) |-> threats[i].severity])

\* The number of active threats as process_threats was called in a round.
ThreatsAtProcessing(r) ==
    LET i == CHOOSE i \in 1..Len(log) :
                 log[i].round = r /\ log[i].step = "process_threats"
    IN  log[i].threats

\* The penalty that process_threats returned in a round.
PenaltyOfRound(r) ==
    LET i == CHOOSE i \in 1..Len(log) :
                 log[i].round = r /\ log[i].step = "process_threats"
    IN  log[i].arg

\* The round whose outcome added the i-th active threat: the first round in
\* which process_threats found at least i threats.
AddedIn(i) ==
    CHOOSE r \in 1..loop_round :
        /\ ThreatsAtProcessing(r) >= i
        /\ \A q \in 1..(r - 1) : ThreatsAtProcessing(q) < i

\* C37: at the end of round q a threat added by the outcome of round r has
\* rounds_active = q - r + 1, an AddThreat of its name in between changes
\* nothing, and the penalty of round r already counted its severity.
C37_RoundsActive ==
    (pc \in {"loop", "done"} /\ loop_round >= 1) =>
        \A i \in 1..Len(galaxy.threats) :
            /\ \E r \in 1..loop_round : ThreatsAtProcessing(r) >= i
            /\ galaxy.threats[i].rounds_active = loop_round - AddedIn(i) + 1
            /\ PenaltyOfRound(AddedIn(i))
                  = 0 - 3 * SumSeverity(SubSeq(galaxy.threats, 1,
                                               ThreatsAtProcessing(AddedIn(i))))

\* C37 witness: the run has ended after two rounds; the only threat was added
\* in round 1, and the outcome of round 2 had an AddThreat of the same name.
C37_Witness ==
    /\ pc = "done"
    /\ loop_round = 2
    /\ Len(galaxy.threats) = 1
    /\ ThreatsAtProcessing(1) = 1
    /\ galaxy.threats[1].rounds_active = 2
    /\ LET applied == event.options[winner + 1].outcome.state_changes
       IN  \E j \in 1..Len(applied) :
               /\ applied[j].type = "AddThreat"
               /\ applied[j].threat.name = galaxy.threats[1].name

(***************************************************************************)
(* Claims about the round loop after many rounds (SpecCampaign).           *)
(***************************************************************************)
\* The loop is between generate_event and apply_changes: the event of the
\* round was generated in the world state as it is.
EventPending == pc \in {"vote", "record_outcome", "apply_outcome"}

\* The outcome of the round has just been applied.
OutcomeApplied == pc = "process_threats" /\ op = "apply_changes"

\* C32: the loop never panics in generate_event, and the event of a round
\* comes from a template that is applicable in the world state it was
\* generated in: Diplomatic Request with a known species, Derelict Vessel and
\* Artifact Discovery with an explored sector, Cultural Exchange with a known
\* species that is not hostile (its 'no candidates' branch is not taken).
C32_GenerateOnlyApplicable ==
    /\ pc # "panicked"
    /\ EventPending =>
          LET template == TemplateOf(event)
          IN  /\ template \in {default_templates[i] : i \in 1..Len(default_templates)}
              /\ template = "Diplomatic Request" => Len(galaxy.known_species) >= 1
              /\ template \in {"Derelict Vessel", "Artifact Discovery"}
                    => Len(galaxy.explored_sectors) >= 1
              /\ template = "Artifact Discovery" => Len(galaxy.explored_sectors) > 1
              /\ template = "Cultural Exchange" =>
                    \E i \in 1..Len(galaxy.known_species) :
                        /\ galaxy.known_species[i].name = event.description[2]
                        /\ galaxy.relations[event.description[2]] # "Hostile"
              /\ template = "Tech Breakthrough" => Len(galaxy.discoveries) >= 3
              /\ template = "Unknown Signal" => Len(galaxy.explored_sectors) < 10
              /\ template = "First Contact" => Len(galaxy.known_species) < 5
              /\ template = "Threat Emergence" => Len(galaxy.threats) < 3

\* C32 witness: a Cultural Exchange event in a world with a hostile species.
C32_Witness ==
    /\ EventPending
    /\ TemplateOf(event) = "Cultural Exchange"
    /\ \E i \in 1..Len(galaxy.known_species) :
          galaxy.relations[galaxy.known_species[i].name] = "Hostile"

\* C34: there are between 1 and 10 explored sectors and at most 5 known
\* species, and no step makes either list shorter.
C34_SectorsAndSpeciesBounded ==
    /\ [](/\ Len(galaxy.explored_sectors) \in 1..10
          /\ Len(galaxy.known_species) <= 5)
    /\ [][/\ Len(galaxy'.explored_sectors) >= Len(galaxy.explored_sectors)
          /\ Len(galaxy'.known_species) >= Len(galaxy.known_species)]_vars

\* C34 witness: a round was played with 10 sectors and 5 species.
C34_Witness ==
    /\ Len(galaxy.explored_sectors) = 10
    /\ Len(galaxy.known_species) = 5
    /\ log # <<>>
    /\ pc = "done"

\* The threats of a list keep their place, name and severity in another.
ThreatsKept(before, after) ==
    /\ Len(after) >= Len(before)
    /\ \A i \in 1..Len(before) :
          /\ after[i].name = before[i].name
          /\ after[i].severity = before[i].severity

\* C35: no option of an event removes a threat or changes a severity, no
\* step removes an active threat or changes its severity, and there are
\* never more than 9 active threats.
C35_ThreatsOnlyGrow ==
    /\ [](\A c \in ChangesOf(event) :
             c.type \notin {"RemoveThreat", "ModifyThreatSeverity"})
    /\ [](Len(galaxy.threats) <= 9)
    /\ [][ThreatsKept(galaxy.threats, galaxy'.threats)]_vars

\* C35 witness: nine threats are active, the last six added by outcomes of
\* Derelict Vessel and Resource Scarcity, and the outcome of another Derelict
\* Vessel event with an AddThreat has just been applied.
C35_Witness ==
    /\ OutcomeApplied
    /\ Len(galaxy.threats) = 9
    /\ galaxy.threats[9].name = "Resource Shortfall"
    /\ TemplateOf(event) = "Derelict Vessel"
    /\ \E i \in 1..Len(changes) : changes[i].type = "AddThreat"

\* C36: every active threat has a severity between 1 and 4; the penalty that
\* process_threats returns is 0 without an active threat and otherwise
\* negative, -3 times the sum of the severities; at the end of a round the
\* ledger's last entry is that penalty if a threat is active, and is not a
\* penalty otherwise.
C36_SeverityAndPenalty ==
    /\ \A i \in 1..Len(galaxy.threats) : galaxy.threats[i].severity \in 1..4
    /\ op = "process_threats" =>
          /\ penalty = 0 - 3 * SumSeverity(galaxy.threats)
          /\ galaxy.threats = <<>> => penalty = 0
          /\ galaxy.threats # <<>> => penalty < 0
    /\ (pc \in {"loop", "done"} /\ loop_round >= 1) =>
          LET last == score.history[Len(score.history)]
          IN  IF galaxy.threats = <<>>
              THEN last.reason # "Unresolved threats"
              ELSE last = [round |-> loop_round,
                           delta |-> 0 - 3 * SumSeverity(galaxy.threats),
                           reason |-> "Unresolved threats"]

\* C36 witness: a round has ended with threats of severity 1 and 4 active.
C36_Witness ==
    /\ pc = "done"
    /\ log # <<>>
    /\ \E i \in 1..Len(galaxy.threats) : galaxy.threats[i].severity = 4
    /\ \E i \in 1..Len(galaxy.threats) : galaxy.threats[i].severity = 1
    /\ score.history[Len(score.history)].delta = penalty
    /\ penalty < 0

\* C38: the keys of relations are the names of the known species.
C38_RelationsOfKnownSpecies ==
    DOMAIN galaxy.relations
        = {galaxy.known_species[i].name : i \in 1..Len(galaxy.known_species)}

\* C38 witness: the outcome of a Resource Scarcity or Diplomatic Request
\* event has set the relation of one of three known species.
C38_Witness ==
    /\ OutcomeApplied
    /\ Len(galaxy.known_species) = 3
    /\ TemplateOf(event) \in {"Resource Scarcity", "Diplomatic Request"}
    /\ \E i \in 1..Len(changes) : changes[i].type = "SetRelation"
    /\ galaxy.relations # prev_galaxy.relations

\* C39: no step takes a relation that is not Unknown back to Unknown.
C39_NeverUnknownAgain ==
    [][\A name \in DOMAIN galaxy.relations :
          galaxy.relations[name] # "Unknown"
          => (name \in DOMAIN galaxy'.relations /\ galaxy'.relations[name] # "Unknown")]_vars

\* C39 witness: a First Contact event named a species that was known with a
\* relation other than Unknown, and its AddSpecies has been applied.
C39_Witness ==
    /\ OutcomeApplied
    /\ TemplateOf(event) = "First Contact"
    /\ AnyNamed(prev_galaxy.known_species, event.description[2])
    /\ prev_galaxy.relations[event.description[2]] # "Unknown"
    /\ winner = 1
    /\ changes # <<>>
    /\ changes[1].type = "AddSpecies"
    /\ galaxy.relations = prev_galaxy.relations

====
